---- MODULE Spec2Model ----
(***************************************************************************)
(* pyAW: a set of pyRevit pushbutton scripts.  Every script is a linear,   *)
(* dialog-driven macro that writes to the Revit document through a host    *)
(* transaction.  The model has one program counter (pc) for the script     *)
(* that is running, the host transaction's state, the document as the      *)
(* host keeps it inside (docw) and outside (docs) the open transaction,    *)
(* and the script's local variables (loc).                                 *)
(***************************************************************************)
EXTENDS Integers, Sequences, FiniteSets, TLC

VARIABLES
    script,   \* the pushbutton script that is running
    pc,       \* position in that script
    txn,      \* state of the transaction object t: none/started/committed/rolledback
    ends,     \* the Commit/RollBack calls made on the current transaction, in order
    wrote,    \* TRUE iff the step just taken wrote to the document
    failed,   \* the current transaction's errors: "no", "caught" or "escaped"
    docw,     \* the document as seen inside the script (uncommitted changes included)
    docs,     \* the document as persisted (last committed state)
    snap,     \* docs as it was when the current transaction was started
    inp,      \* the inputs of the run (user selections, file contents, host model data)
    loc,      \* the script's local variables
    obs       \* what the run has shown or called so far (dialogs, API calls)

vars == <<script, pc, txn, ends, wrote, failed, docw, docs, snap, inp, loc, obs>>

----------------------------------------------------------------------------
(* Bounds of the model *)

MaxLevels == 3      \* selected levels handed to get_nearest_level
MaxElev == 2        \* elevations and Z positions range over 0..MaxElev
NInst == 1          \* family instances processed by one Assign Level run

Elevs == 0..MaxElev

\* float('inf'): larger than every distance between two positions
Inf == MaxElev + 1

Abs(x) == IF x < 0 THEN -x ELSE x

\* all sequences over S of length lo..hi
SeqsOf(S, lo, hi) == UNION {[1..n -> S] : n \in lo..hi}

----------------------------------------------------------------------------
(* The host's transaction object (Autodesk.Revit.DB.Transaction) *)

\* t.Start()
TxStart ==
    /\ txn' = "started"
    /\ ends' = <<>>
    /\ failed' = "no"
    /\ snap' = docs
    /\ UNCHANGED <<docw, docs>>

\* t.Commit(): the changes made since Start become the persisted document
TxCommit ==
    /\ txn' = "committed"
    /\ ends' = Append(ends, "Commit")
    /\ docs' = docw
    /\ UNCHANGED <<docw, snap>>

\* t.RollBack(): the changes made since Start are discarded
TxRollBack ==
    /\ txn' = "rolledback"
    /\ ends' = Append(ends, "RollBack")
    /\ docw' = docs
    /\ UNCHANGED <<docs, snap>>

\* no call on the transaction object in this step
TxSame == UNCHANGED <<txn, ends, docs, snap>>

----------------------------------------------------------------------------
(* Assign Level: get_nearest_level *)

Directions == {"Below", "Above", "Either"}

\* a level of selected_levels is named by its position in the list; None is 0
None == 0

\* the loop body's test with "<" replaced by "<=": the last of several equally near levels wins
IsNearerLastWins(direction, distance, nearest_distance) ==
    IF direction = "Either"
    THEN distance <= nearest_distance
    ELSE 0 <= distance /\ distance <= nearest_distance

\* the loop body's test without the "0 <=" part: levels on the wrong side are eligible
IsNearerAnySide(direction, distance, nearest_distance) ==
    distance < nearest_distance

\* the test that makes a level the new nearest one
IsNearer(direction, distance, nearest_distance) ==
    IF direction = "Either"
    THEN distance < nearest_distance
    ELSE 0 <= distance /\ distance < nearest_distance

\* distance of a level from the instance in the given direction
LevelDistance(direction, z, level_elevation) ==
    CASE direction = "Below" -> z - level_elevation
      [] direction = "Above" -> level_elevation - z
      [] OTHER -> Abs(z - level_elevation)

\* the for loop of get_nearest_level from position i on
RECURSIVE NearestScan(_, _, _, _, _, _)
NearestScan(selected_levels, z, direction, i, nearest_level, nearest_distance) ==
    IF i > Len(selected_levels)
    THEN nearest_level
    ELSE LET distance == LevelDistance(direction, z, selected_levels[i])
             take == IsNearer(direction, distance, nearest_distance)
         IN NearestScan(selected_levels, z, direction, i + 1,
                        IF take THEN i ELSE nearest_level,
                        IF take THEN distance ELSE nearest_distance)

get_nearest_level(instance, direction, selected_levels) ==
    IF instance.hasPoint
    THEN NearestScan(selected_levels, instance.z, direction, 1, None, Inf)
    ELSE None

\* get_nearest_level as a function under test: inputs drawn from bounded sets
InitNearest ==
    /\ script = "get_nearest_level"
    /\ pc = "call"
    /\ txn = "none" /\ ends = <<>> /\ wrote = FALSE /\ failed = "no"
    /\ docw = <<>> /\ docs = <<>> /\ snap = <<>>
    /\ inp \in [selected_levels : SeqsOf(Elevs, 0, MaxLevels),
                direction : Directions,
                instance : [hasPoint : BOOLEAN, z : Elevs]]
    /\ loc = [nearest_level |-> None]
    /\ obs = [alerts |-> {}]

NearestCall ==
    /\ script = "get_nearest_level" /\ pc = "call"
    /\ loc' = [nearest_level |->
                 get_nearest_level(inp.instance, inp.direction, inp.selected_levels)]
    /\ pc' = "returned"
    /\ UNCHANGED <<script, txn, ends, wrote, failed, docw, docs, snap, inp, obs>>

NextNearest == NearestCall

SpecNearest == InitNearest /\ [][NextNearest]_vars

----------------------------------------------------------------------------
(* Claims about get_nearest_level, under SpecNearest *)

\* positions of the selected levels on the asked side of the instance's Z
EligibleLevels ==
    {i \in 1..Len(inp.selected_levels) :
        CASE inp.direction = "Below" -> inp.selected_levels[i] <= inp.instance.z
          [] inp.direction = "Above" -> inp.selected_levels[i] >= inp.instance.z
          [] OTHER -> TRUE}

\* i is at least as near to Z as k, and comes first in the list when equally near
NearestFirst(i, k) ==
    LET di == Abs(inp.instance.z - inp.selected_levels[i])
        dk == Abs(inp.instance.z - inp.selected_levels[k])
    IN di < dk \/ (di = dk /\ i <= k)

\* C8: with direction Below (Above), the result is the selected level with the
\* highest elevation <= Z (lowest elevation >= Z), the first in list order on
\* equal elevations, and None when no selected level lies on that side; a level
\* exactly at Z is eligible; the result is always None or a selected level.
C8_NearestBelowAbove ==
    pc = "returned" =>
        /\ loc.nearest_level \in {None} \cup (1..Len(inp.selected_levels))
        /\ (inp.instance.hasPoint /\ inp.direction \in {"Below", "Above"}) =>
              IF EligibleLevels = {}
              THEN loc.nearest_level = None
              ELSE /\ loc.nearest_level \in EligibleLevels
                   /\ \A k \in EligibleLevels : NearestFirst(loc.nearest_level, k)

\* a run with two equally high levels exactly at Z, direction Below: the first is returned
C8_Witness ==
    /\ pc = "returned" /\ inp.direction = "Below" /\ inp.instance.hasPoint
    /\ Len(inp.selected_levels) >= 2
    /\ inp.selected_levels[1] = inp.instance.z
    /\ inp.selected_levels[2] = inp.instance.z
    /\ loc.nearest_level = 1

\* C9: with direction Either, the result is a selected level that minimises
\* |Z - elevation| over all selected levels, the first in list order among the
\* equally near ones; for an instance with a location point the result is None
\* only when selected_levels is empty.
C9_NearestEither ==
    (pc = "returned" /\ inp.direction = "Either" /\ inp.instance.hasPoint) =>
        IF inp.selected_levels = <<>>
        THEN loc.nearest_level = None
        ELSE /\ loc.nearest_level \in 1..Len(inp.selected_levels)
             /\ \A k \in 1..Len(inp.selected_levels) : NearestFirst(loc.nearest_level, k)

\* a run with one level above and one below Z at the same distance: the first is returned
C9_Witness ==
    /\ pc = "returned" /\ inp.direction = "Either" /\ inp.instance.hasPoint
    /\ Len(inp.selected_levels) >= 2
    /\ inp.selected_levels[1] = inp.instance.z + 1
    /\ inp.selected_levels[2] = inp.instance.z - 1
    /\ loc.nearest_level = 1

----------------------------------------------------------------------------
(* Assign Level: main and assign_levels *)

MaxSel == 2         \* levels selected in one Assign Level run

\* a family instance as the host presents it: whether its Location has a Point,
\* its offset parameter (get_offset_parameter: none found, read-only, writable),
\* whether a level parameter is writable and whether it has a work plane
InstKinds ==
    {r \in [hasPoint : BOOLEAN, offKind : {"none", "readonly", "rw"},
            levelRW : BOOLEAN, workPlane : BOOLEAN] :
        ~r.hasPoint => (r.offKind = "none" /\ ~r.levelRW /\ ~r.workPlane)}

calculate_new_offset(target_level_elevation, current_z) ==
    current_z - target_level_elevation

\* Location.Point.Z of instance j as the script reads it now
get_element_z_position(j) == docw[j].z

\* assign_levels computing the offset from the Z recorded before the transaction
OffsetFromOriginalZ(j, nearest_level) ==
    calculate_new_offset(inp.selected_levels[nearest_level], snap[j].z)

\* line 360: the new offset, from the instance's Z as read at that point
NewOffsetInLoop(j, nearest_level) ==
    calculate_new_offset(inp.selected_levels[nearest_level], get_element_z_position(j))

InitLevel ==
    /\ script = "AssignLevel"
    /\ pc = "lv_prepare"
    /\ txn = "none" /\ ends = <<>> /\ wrote = FALSE /\ failed = "no"
    /\ inp \in [selected_levels : SeqsOf(Elevs, 1, MaxSel),
                direction : Directions,
                instances : [1..NInst -> InstKinds]]
    /\ docw \in [1..NInst -> [z : Elevs, level : {None}, plane : {0}, offset : {0}]]
    /\ \A j \in 1..NInst : ~inp.instances[j].hasPoint => docw[j].z = 0
    /\ docs = docw /\ snap = docw
    /\ loc = [i |-> 1, instances_data |-> <<>>, updated_instances |-> <<>>,
              proceed |-> "not asked"]
    /\ obs = [alerts |-> {}]

\* main, steps 4 and 5: the data and the confirmation list of every instance
LvPrepare ==
    /\ script = "AssignLevel" /\ pc = "lv_prepare"
    /\ loc' = [loc EXCEPT !.instances_data =
          [j \in 1..NInst |->
             LET nearest_level ==
                   get_nearest_level([hasPoint |-> inp.instances[j].hasPoint, z |-> docw[j].z],
                                     inp.direction, inp.selected_levels)
             IN [desired_level |-> nearest_level,
                 shown |-> nearest_level # None,
                 desired_offset |->
                    IF nearest_level # None
                    THEN calculate_new_offset(inp.selected_levels[nearest_level],
                                              get_element_z_position(j))
                    ELSE 0]]]
    /\ pc' = "lv_confirm"
    /\ wrote' = FALSE
    /\ TxSame
    /\ UNCHANGED <<script, failed, docw, inp, obs>>

\* the dialog as it would be were its answer not tested: main goes on to
\* assign_levels after No as well
LvConfirmIgnored ==
    /\ script = "AssignLevel" /\ pc = "lv_confirm"
    /\ \E proceed \in BOOLEAN :
          /\ pc' = "lv_start"
          /\ loc' = [loc EXCEPT !.proceed = IF proceed THEN "Yes" ELSE "No"]
          /\ obs' = [obs EXCEPT !.alerts = @ \cup {"Instances to Update"}]
    /\ wrote' = FALSE
    /\ TxSame
    /\ UNCHANGED <<script, failed, docw, inp>>

\* main, the 'Instances to Update' dialog: Yes goes on, No ends the script
LvConfirm ==
    /\ script = "AssignLevel" /\ pc = "lv_confirm"
    /\ \E proceed \in BOOLEAN :
          /\ pc' = IF proceed THEN "lv_start" ELSE "done"
          /\ loc' = [loc EXCEPT !.proceed = IF proceed THEN "Yes" ELSE "No"]
          /\ obs' = [obs EXCEPT !.alerts = @ \cup {"Instances to Update"}]
    /\ wrote' = FALSE
    /\ TxSame
    /\ UNCHANGED <<script, failed, docw, inp>>

\* assign_levels: t.Start()
LvStart ==
    /\ script = "AssignLevel" /\ pc = "lv_start"
    /\ TxStart
    /\ pc' = "lv_loop"
    /\ wrote' = FALSE
    /\ UNCHANGED <<script, inp, loc, obs>>

\* assign_levels: an instance without a nearest level is skipped
LvSkip ==
    /\ script = "AssignLevel" /\ pc = "lv_loop" /\ loc.i <= NInst
    /\ loc.instances_data[loc.i].desired_level = None
    /\ loc' = [loc EXCEPT !.i = @ + 1]
    /\ wrote' = FALSE
    /\ TxSame
    /\ UNCHANGED <<script, pc, failed, docw, inp, obs>>

\* set_level_parameters: the writable level parameters are set to the nearest
\* level; a failing Set is caught and recorded.  The host may move the instance.
LvSetLevel ==
    /\ script = "AssignLevel" /\ pc = "lv_loop" /\ loc.i <= NInst
    /\ loc.instances_data[loc.i].desired_level # None
    /\ \/ /\ inp.instances[loc.i].levelRW
          /\ \E z2 \in Elevs :
                docw' = [docw EXCEPT ![loc.i].level = loc.instances_data[loc.i].desired_level,
                                     ![loc.i].z = z2]
          /\ wrote' = TRUE
          /\ UNCHANGED failed
       \/ /\ inp.instances[loc.i].levelRW
          /\ failed' = "caught"
          /\ wrote' = FALSE
          /\ UNCHANGED docw
       \/ /\ ~inp.instances[loc.i].levelRW
          /\ wrote' = FALSE
          /\ UNCHANGED <<docw, failed>>
    /\ pc' = "lv_plane"
    /\ TxSame
    /\ UNCHANGED <<script, inp, loc, obs>>

\* edit_work_plane: a sketch plane at the target elevation becomes the work
\* plane; a failure is caught and recorded.  The host may move the instance.
LvWorkPlane ==
    /\ script = "AssignLevel" /\ pc = "lv_plane"
    /\ \/ /\ inp.instances[loc.i].workPlane
          /\ \E z2 \in Elevs :
                docw' = [docw EXCEPT ![loc.i].plane = 1, ![loc.i].z = z2]
          /\ wrote' = TRUE
          /\ UNCHANGED failed
       \/ /\ inp.instances[loc.i].workPlane
          /\ failed' = "caught"
          /\ wrote' = FALSE
          /\ UNCHANGED docw
       \/ /\ ~inp.instances[loc.i].workPlane
          /\ wrote' = FALSE
          /\ UNCHANGED <<docw, failed>>
    /\ pc' = "lv_offset"
    /\ TxSame
    /\ UNCHANGED <<script, inp, loc, obs>>

\* lines 360-379: the new offset is computed and written to the offset parameter
LvOffset ==
    /\ script = "AssignLevel" /\ pc = "lv_offset"
    /\ LET nearest_level == loc.instances_data[loc.i].desired_level
           new_offset == NewOffsetInLoop(loc.i, nearest_level)
           entry(has) == [instance |-> loc.i, new_level |-> nearest_level,
                          hasOffset |-> has, new_offset |-> IF has THEN new_offset ELSE 0]
       IN \/ /\ inp.instances[loc.i].offKind = "rw"
             /\ docw' = [docw EXCEPT ![loc.i].offset = new_offset]
             /\ loc' = [loc EXCEPT !.i = @ + 1,
                                   !.updated_instances = Append(@, entry(TRUE))]
             /\ wrote' = TRUE
             /\ UNCHANGED failed
          \/ /\ inp.instances[loc.i].offKind = "rw"
             /\ loc' = [loc EXCEPT !.i = @ + 1,
                                   !.updated_instances = Append(@, entry(FALSE))]
             /\ failed' = "caught"
             /\ wrote' = FALSE
             /\ UNCHANGED docw
          \/ /\ inp.instances[loc.i].offKind # "rw"
             /\ loc' = [loc EXCEPT !.i = @ + 1,
                                   !.updated_instances = Append(@, entry(FALSE))]
             /\ wrote' = FALSE
             /\ UNCHANGED <<docw, failed>>
    /\ pc' = "lv_loop"
    /\ TxSame
    /\ UNCHANGED <<script, inp, obs>>

\* assign_levels: an error outside the per-instance try reaches the outer handler
LvUnexpected ==
    /\ script = "AssignLevel" /\ pc = "lv_loop" /\ loc.i <= NInst
    /\ TxRollBack
    /\ failed' = "escaped"
    /\ pc' = "lv_report"
    /\ wrote' = FALSE
    /\ UNCHANGED <<script, inp, loc, obs>>

\* assign_levels: t.Commit() after the last instance
LvCommit ==
    /\ script = "AssignLevel" /\ pc = "lv_loop" /\ loc.i > NInst
    /\ TxCommit
    /\ pc' = "lv_report"
    /\ wrote' = FALSE
    /\ UNCHANGED <<script, failed, inp, loc, obs>>

\* main, step 7: the result dialog
LvReport ==
    /\ script = "AssignLevel" /\ pc = "lv_report"
    /\ obs' = [obs EXCEPT !.alerts =
                 @ \cup {IF loc.updated_instances # <<>> THEN "Updated Instances" ELSE "Result"}]
    /\ pc' = "done"
    /\ wrote' = FALSE
    /\ TxSame
    /\ UNCHANGED <<script, failed, docw, inp, loc>>

NextLevel ==
    \/ LvPrepare \/ LvConfirm \/ LvStart \/ LvSkip \/ LvSetLevel \/ LvWorkPlane
    \/ LvOffset \/ LvUnexpected \/ LvCommit \/ LvReport

SpecLevel == InitLevel /\ [][NextLevel]_vars

\* C10: for every instance with a nearest level and a writable offset parameter,
\* the offset written equals the instance's Z as it was before the run changed
\* its level parameters or work plane, minus the target level's elevation, and
\* equals the 'Desired Offset' shown for it in the confirmation list.
C10_OffsetKeepsZ ==
    script = "AssignLevel" =>
        \A k \in 1..Len(loc.updated_instances) :
            LET u == loc.updated_instances[k]
            IN u.hasOffset =>
                 /\ u.new_offset = OffsetFromOriginalZ(u.instance, u.new_level)
                 /\ loc.instances_data[u.instance].shown
                 /\ u.new_offset = loc.instances_data[u.instance].desired_offset

\* C13: after the dialog 'Instances to Update', the answer Yes runs
\* assign_levels over the listed instances and the script ends with the result
\* dialog shown; the answer No ends the script with no transaction started and
\* no instance modified.  A transaction is started only after the answer Yes.
C13_ConfirmationDecides ==
    script = "AssignLevel" =>
        /\ loc.proceed = "No" =>
               /\ pc = "done"
               /\ txn = "none" /\ ends = <<>>
               /\ docw = snap /\ docs = snap
               /\ loc.updated_instances = <<>>
        /\ txn # "none" => loc.proceed = "Yes"
        /\ (loc.proceed = "Yes" /\ pc = "done") =>
               /\ txn \in {"committed", "rolledback"}
               /\ txn = "committed" => loc.i > NInst
               /\ {"Updated Instances", "Result"} \cap obs.alerts # {}
        /\ pc # "done" => ENABLED NextLevel

\* the user answered Yes, the levels were assigned and committed, and the
\* dialog 'Updated Instances' was shown
C13_Witness ==
    /\ script = "AssignLevel" /\ pc = "done" /\ loc.proceed = "Yes"
    /\ txn = "committed" /\ docs # snap
    /\ "Updated Instances" \in obs.alerts

\* the user answered No
C13_WitnessNo ==
    /\ script = "AssignLevel" /\ pc = "done" /\ loc.proceed = "No"
    /\ loc.instances_data # <<>>

----------------------------------------------------------------------------
(* Text: Python's str.strip and int()/float() on cell texts *)

MaxText == 2        \* length of a CSV cell's text

\* a text is a sequence of characters
Chars == {" ", "1"}
CellTexts == SeqsOf(Chars, 0, MaxText)

RECURSIVE LStrip(_)
LStrip(s) == IF s # <<>> /\ Head(s) = " " THEN LStrip(Tail(s)) ELSE s

RECURSIVE RStrip(_)
RStrip(s) == IF s # <<>> /\ s[Len(s)] = " " THEN RStrip(SubSeq(s, 1, Len(s) - 1)) ELSE s

\* s.strip()
Strip(s) == RStrip(LStrip(s))

Digits == {"0", "1", "2", "3", "4", "5", "6", "7", "8", "9"}

DigitVal(c) ==
    CASE c = "0" -> 0 [] c = "1" -> 1 [] c = "2" -> 2 [] c = "3" -> 3 [] c = "4" -> 4
      [] c = "5" -> 5 [] c = "6" -> 6 [] c = "7" -> 7 [] c = "8" -> 8 [] c = "9" -> 9

\* int(s) raises ValueError unless s, without surrounding blanks, is a row of digits
IsInt(s) ==
    LET t == Strip(s) IN t # <<>> /\ \A i \in 1..Len(t) : t[i] \in Digits

RECURSIVE DigitsVal(_)
DigitsVal(t) ==
    IF t = <<>> THEN 0 ELSE 10 * DigitsVal(SubSeq(t, 1, Len(t) - 1)) + DigitVal(t[Len(t)])

\* int(s), for a text that IsInt
IntOf(s) == DigitsVal(Strip(s))

----------------------------------------------------------------------------
(* Schedule EXIM: import_csv_to_revit *)

MaxRows == 2        \* data rows of the CSV file
NCols == 2          \* value columns of the CSV file besides the identifier
NSlots == 1         \* parameters of the document that a CSV column can name

\* internal units are counted in steps of 5e-7; the comparison tolerance 1e-6 is two steps
Tol == 2
\* ConvertToInternalUnits: internal steps per display unit
UnitScale == 30

StorageTypes == {"String", "Double", "Integer", "ElementId"}

\* a parameter of the document: its storage type and its value
SlotVals ==
    [st : {"String"}, v : {<<>>, <<"1">>}]
    \cup [st : {"Integer"}, v : {1, 2}]
    \cup [st : {"ElementId"}, v : {1, 2}]
    \cup [st : {"Double"}, v : {UnitScale, UnitScale + 1, UnitScale + Tol}]

\* float(new_value) followed by ConvertToInternalUnits (the model's cell texts
\* hold no decimal point: float accepts what int accepts)
ToInternal(new_value) == IntOf(new_value) * UnitScale

\* the skip test for a Double without the tolerance: only an equal value counts as unchanged
SameDoubleExact(current, internal_value) == current = internal_value

\* line 292
SameString(current_value, new_value) == current_value = new_value
\* line 301
SameDouble(current, internal_value) == Abs(current - internal_value) < Tol
\* line 310
SameInteger(current_value, new_int_value) == current_value = new_int_value
\* line 318
SameElementId(current_value, new_elem_id) == current_value = new_elem_id

\* lines 289-322: whether param.Set is reached for a parameter and a cell text
SetReached(p, value) ==
    LET new_value == Strip(value)
    IN CASE p.st = "String" -> ~SameString(p.v, new_value)
         [] p.st = "Double" -> IsInt(new_value) /\ ~SameDouble(p.v, ToInternal(new_value))
         [] p.st = "Integer" -> IsInt(new_value) /\ ~SameInteger(p.v, IntOf(new_value))
         [] p.st = "ElementId" -> IsInt(new_value) /\ ~SameElementId(p.v, IntOf(new_value))

\* the value handed to param.Set
SetValue(p, value) ==
    LET new_value == Strip(value)
    IN CASE p.st = "String" -> new_value
         [] p.st = "Double" -> ToInternal(new_value)
         [] OTHER -> IntOf(new_value)

\* the end of import_csv_to_revit commits whatever the flag says
FinishCommitsAlways(user_wants_to_abort) == TRUE

\* line 338: the transaction is committed when the user did not abort
FinishCommits(user_wants_to_abort) == ~user_wants_to_abort

NoCell == [valid |-> FALSE]

InitImport ==
    /\ script = "ScheduleImport"
    /\ pc = "im_select"
    /\ txn = "none" /\ ends = <<>> /\ wrote = FALSE /\ failed = "no"
    /\ inp \in [idType : {"Text", "Integer", "Other"}]
    /\ docw \in [1..NSlots -> SlotVals]
    /\ docs = docw /\ snap = docw
    /\ loc = [rows |-> 0, cell |-> 0, user_wants_to_abort |-> FALSE,
              update_type_params |-> FALSE]
    /\ obs = [alerts |-> {}, abort |-> "none", anySet |-> FALSE, lastCell |-> NoCell,
              rowSet |-> FALSE, rowError |-> "none"]

\* lines 146-184: the file and the identifier parameter are chosen, or the import ends
ImSelect ==
    /\ script = "ScheduleImport" /\ pc = "im_select"
    /\ \/ /\ pc' = "im_start"
          /\ UNCHANGED obs
       \/ /\ pc' = "done"
          /\ obs' = [obs EXCEPT !.alerts = @ \cup {"Aborting import"}]
    /\ wrote' = FALSE
    /\ TxSame
    /\ UNCHANGED <<script, failed, docw, inp, loc>>

\* lines 189-198: t.Start() and the question about type parameters
ImStart ==
    /\ script = "ScheduleImport" /\ pc = "im_start"
    /\ TxStart
    /\ \E answer \in {"Yes", "No", "dismissed"} :
          loc' = [loc EXCEPT !.user_wants_to_abort = FALSE,
                             !.update_type_params = (answer = "Yes")]
    /\ pc' = "im_loop"
    /\ wrote' = FALSE
    /\ UNCHANGED <<script, inp, obs>>

\* lines 200-249: the next row is read and its element is looked up
ImNextRow ==
    /\ script = "ScheduleImport" /\ pc = "im_loop" /\ loc.rows < MaxRows
    /\ \E id \in CellTexts, found \in BOOLEAN :
         LET unique_id_value == Strip(id)
         IN \/ /\ unique_id_value = <<>>
               /\ pc' = "im_loop"
               /\ loc' = [loc EXCEPT !.rows = @ + 1]
               /\ UNCHANGED obs
            \/ /\ unique_id_value # <<>> /\ inp.idType = "Integer" /\ ~IsInt(unique_id_value)
               /\ pc' = "im_loop"
               /\ loc' = [loc EXCEPT !.rows = @ + 1]
               /\ UNCHANGED obs
            \/ /\ unique_id_value # <<>> /\ inp.idType = "Other"
               /\ pc' = "im_finish"
               /\ loc' = [loc EXCEPT !.rows = @ + 1, !.user_wants_to_abort = TRUE]
               /\ obs' = [obs EXCEPT !.alerts = @ \cup {"Unsupported unique identifier parameter type."},
                                     !.abort = "unsupported"]
            \/ /\ unique_id_value # <<>>
               /\ \/ inp.idType = "Text"
                  \/ inp.idType = "Integer" /\ IsInt(unique_id_value)
               /\ pc' = IF found THEN "im_cells" ELSE "im_notfound"
               /\ loc' = [loc EXCEPT !.rows = @ + 1, !.cell = 0]
               /\ UNCHANGED obs
    /\ wrote' = FALSE
    /\ TxSame
    /\ UNCHANGED <<script, failed, docw, inp>>

\* lines 239-248: element not found, the user continues or aborts
ImNotFound ==
    /\ script = "ScheduleImport" /\ pc = "im_notfound"
    /\ \E user_choice \in {"Continue", "Abort", "dismissed"} :
          IF user_choice = "Continue"
          THEN /\ pc' = "im_loop"
               /\ UNCHANGED <<loc, obs>>
          ELSE /\ pc' = "im_finish"
               /\ loc' = [loc EXCEPT !.user_wants_to_abort = TRUE]
               /\ obs' = [obs EXCEPT !.abort = "notfound"]
    /\ wrote' = FALSE
    /\ TxSame
    /\ UNCHANGED <<script, failed, docw, inp>>

\* lines 251-322: one key/value pair of the row
ImCell ==
    /\ script = "ScheduleImport" /\ pc = "im_cells" /\ loc.cell < NCols
    /\ \E slot \in 0..NSlots, value \in CellTexts, readOnly \in BOOLEAN, is_type_param \in BOOLEAN :
         LET skipped == slot = 0 \/ readOnly \/ (is_type_param /\ ~loc.update_type_params)
             cellOf(called) == [valid |-> TRUE, matched |-> ~skipped, param |-> docw[slot],
                                value |-> value, called |-> called]
         IN \/ /\ skipped
               /\ obs' = [obs EXCEPT !.lastCell = NoCell]
               /\ loc' = [loc EXCEPT !.cell = @ + 1]
               /\ wrote' = FALSE
               /\ UNCHANGED <<pc, docw, failed>>
            \/ /\ ~skipped /\ ~SetReached(docw[slot], value)
               /\ obs' = [obs EXCEPT !.lastCell = cellOf(FALSE)]
               /\ loc' = [loc EXCEPT !.cell = @ + 1]
               /\ wrote' = FALSE
               /\ UNCHANGED <<pc, docw, failed>>
            \/ /\ ~skipped /\ SetReached(docw[slot], value)
               /\ docw' = [docw EXCEPT ![slot].v = SetValue(docw[slot], value)]
               /\ obs' = [obs EXCEPT !.lastCell = cellOf(TRUE), !.anySet = TRUE,
                                     !.rowSet = TRUE]
               /\ loc' = [loc EXCEPT !.cell = @ + 1]
               /\ wrote' = TRUE
               /\ UNCHANGED <<pc, failed>>
            \/ \* Set raises: swallowed for Double, Integer and ElementId (except: pass),
               \* it reaches the row's handler for a String
               /\ ~skipped /\ SetReached(docw[slot], value)
               /\ obs' = [obs EXCEPT !.lastCell = cellOf(TRUE)]
               /\ loc' = [loc EXCEPT !.cell = @ + 1]
               /\ pc' = IF docw[slot].st = "String" THEN "im_rowerr" ELSE pc
               /\ failed' = "caught"
               /\ wrote' = FALSE
               /\ UNCHANGED docw
            \/ \* reading the parameter raises before any comparison
               /\ ~skipped
               /\ obs' = [obs EXCEPT !.lastCell = NoCell]
               /\ loc' = [loc EXCEPT !.cell = @ + 1]
               /\ pc' = "im_rowerr"
               /\ failed' = "caught"
               /\ wrote' = FALSE
               /\ UNCHANGED docw
    /\ TxSame
    /\ UNCHANGED <<script, inp>>

\* the row's pairs are exhausted: back to the row loop
ImRowEnd ==
    /\ script = "ScheduleImport" /\ pc = "im_cells" /\ loc.cell = NCols
    /\ pc' = "im_loop"
    /\ obs' = [obs EXCEPT !.lastCell = NoCell, !.rowSet = FALSE]
    /\ wrote' = FALSE
    /\ TxSame
    /\ UNCHANGED <<script, failed, docw, inp, loc>>

\* what the handler of a row's error notes of the row: whether a parameter
\* of the row had been set before the error
RowErrorNote(before, rowSet) ==
    IF rowSet \/ before = "changed" THEN "changed" ELSE "no change"

\* the handler as it would be were the return of line 334 a break: after its
\* RollBack the function goes on to lines 338-343
ImRowErrorNoReturn ==
    /\ script = "ScheduleImport" /\ pc = "im_rowerr"
    /\ \E user_choice \in {"Continue", "Abort", "dismissed"} :
          IF user_choice = "Continue"
          THEN /\ pc' = "im_loop"
               /\ obs' = [obs EXCEPT !.lastCell = NoCell, !.rowSet = FALSE,
                                     !.rowError = RowErrorNote(@, obs.rowSet)]
               /\ TxSame
               /\ UNCHANGED <<docw, loc>>
          ELSE /\ pc' = "im_finish"
               /\ loc' = [loc EXCEPT !.user_wants_to_abort = TRUE]
               /\ obs' = [obs EXCEPT !.alerts = @ \cup {"Import Aborted"},
                                     !.abort = "rowerror", !.lastCell = NoCell,
                                     !.rowSet = FALSE,
                                     !.rowError = RowErrorNote(@, obs.rowSet)]
               /\ TxRollBack
    /\ wrote' = FALSE
    /\ UNCHANGED <<script, failed, inp>>

\* lines 324-336: the row's error handler
ImRowError ==
    /\ script = "ScheduleImport" /\ pc = "im_rowerr"
    /\ \E user_choice \in {"Continue", "Abort", "dismissed"} :
          IF user_choice = "Continue"
          THEN /\ pc' = "im_loop"
               /\ obs' = [obs EXCEPT !.lastCell = NoCell, !.rowSet = FALSE,
                                     !.rowError = RowErrorNote(@, obs.rowSet)]
               /\ TxSame
               /\ UNCHANGED docw
          ELSE /\ pc' = "done"
               /\ obs' = [obs EXCEPT !.alerts = @ \cup {"Import Aborted"},
                                     !.abort = "rowerror", !.lastCell = NoCell,
                                     !.rowSet = FALSE,
                                     !.rowError = RowErrorNote(@, obs.rowSet)]
               /\ TxRollBack
    /\ wrote' = FALSE
    /\ UNCHANGED <<script, failed, inp, loc>>

\* the reader has no further row
ImEndOfFile ==
    /\ script = "ScheduleImport" /\ pc = "im_loop"
    /\ pc' = "im_finish"
    /\ wrote' = FALSE
    /\ TxSame
    /\ UNCHANGED <<script, failed, docw, inp, loc, obs>>

\* lines 337-343: Commit, or RollBack when the user aborted
ImFinish ==
    /\ script = "ScheduleImport" /\ pc = "im_finish"
    /\ IF FinishCommits(loc.user_wants_to_abort)
       THEN /\ TxCommit
            /\ obs' = [obs EXCEPT !.alerts = @ \cup {"Import Complete"}]
       ELSE /\ TxRollBack
            /\ obs' = [obs EXCEPT !.alerts = @ \cup {"Import Aborted"}]
    /\ pc' = "done"
    /\ wrote' = FALSE
    /\ UNCHANGED <<script, failed, inp, loc>>

\* lines 345-349: an error outside the row's try (reading the next row) is unexpected
ImOuterError ==
    /\ script = "ScheduleImport" /\ pc = "im_loop"
    /\ TxRollBack
    /\ failed' = "escaped"
    /\ obs' = [obs EXCEPT !.alerts = @ \cup {"Import Aborted"}, !.abort = "unexpected"]
    /\ pc' = "done"
    /\ wrote' = FALSE
    /\ UNCHANGED <<script, inp, loc>>

NextImport ==
    \/ ImSelect \/ ImStart \/ ImNextRow \/ ImNotFound \/ ImCell \/ ImRowEnd
    \/ ImRowError \/ ImEndOfFile \/ ImFinish \/ ImOuterError

SpecImport == InitImport /\ [][NextImport]_vars

\* C3: whenever the import is aborted (Abort or a dismissed dialog at 'element
\* not found' or after a row's error, an identifier type that is neither Text
\* nor Integer, an unexpected error outside the row's handler), RollBack is
\* called on the transaction and Commit is not, and the updates already made
\* in the run are discarded.
C3_AbortRollsBack ==
    (script = "ScheduleImport" /\ pc = "done" /\ obs.abort # "none") =>
        /\ ends = <<"RollBack">>
        /\ txn = "rolledback"
        /\ docs = snap
        /\ docw = snap

\* an import aborted at 'element not found' after an earlier row's Set
C3_Witness ==
    /\ script = "ScheduleImport" /\ pc = "done"
    /\ obs.abort = "notfound" /\ obs.anySet
    /\ ends = <<"RollBack">> /\ docw = snap

\* the cell's text, stripped, parses to the parameter's storage type
CellParses(c) ==
    c.param.st = "String" \/ IsInt(Strip(c.value))

\* the cell's parsed value equals the parameter's current value (a Double
\* within the tolerance)
CellUnchanged(c) ==
    /\ CellParses(c)
    /\ CASE c.param.st = "String" -> Strip(c.value) = c.param.v
         [] c.param.st = "Double" ->
               Abs(c.param.v - UnitScale * IntOf(Strip(c.value))) < Tol
         [] OTHER -> IntOf(Strip(c.value)) = c.param.v

\* C4: for every cell of a matched element whose stripped and parsed value
\* equals the parameter's current value (String, Integer, ElementId exactly,
\* Double within 1e-6) param.Set is not called; Set is called only for a cell
\* whose value parses and differs from the current value.
C4_SkipsUnchanged ==
    (script = "ScheduleImport" /\ obs.lastCell.valid /\ obs.lastCell.matched) =>
        /\ CellUnchanged(obs.lastCell) => ~obs.lastCell.called
        /\ obs.lastCell.called => (CellParses(obs.lastCell) /\ ~CellUnchanged(obs.lastCell))

\* a Double cell within the tolerance of, but not equal to, the current value: not Set
C4_Witness ==
    /\ script = "ScheduleImport" /\ obs.lastCell.valid /\ obs.lastCell.matched
    /\ obs.lastCell.param.st = "Double"
    /\ IsInt(obs.lastCell.value)
    /\ obs.lastCell.param.v = UnitScale * IntOf(obs.lastCell.value) + 1
    /\ ~obs.lastCell.called

\* C14: the transaction is committed only if all updates succeed: when the
\* update of a row raised an error (the row's handler ran), the transaction is
\* not committed and no parameter change made for that row persists.
C14_CommitOnlyIfAllSucceed ==
    (script = "ScheduleImport" /\ obs.rowError # "none") =>
        /\ txn # "committed"
        /\ obs.rowError = "changed" => docs = snap

----------------------------------------------------------------------------
(* Schedule EXIM: export_schedule_to_csv *)

NFields == 1        \* visible fields of the schedule
MaxBody == 2        \* rows of the schedule's body section
MaxRetry == 2       \* times the chosen file is found locked

\* a row of texts with every text stripped
StripAll(row) == [c \in 1..Len(row) |-> Strip(row[c])]

\* line 106, comparing the first body row with the headers
FirstRowIsHeader(first_row_values, header_values) == first_row_values = header_values

InitExport ==
    /\ script = "ScheduleExport"
    /\ pc = "ex_select"
    /\ txn = "none" /\ ends = <<>> /\ wrote = FALSE /\ failed = "no"
    /\ docw = <<>> /\ docs = <<>> /\ snap = <<>>
    /\ inp \in [headers : [1..NFields -> CellTexts],
                body : SeqsOf([1..NFields -> CellTexts], 1, MaxBody)]
    /\ loc = [row |-> 0, checks |-> 0, opened |-> FALSE, csv |-> <<>>]
    /\ obs = [alerts |-> {}, is_file_locked |-> "not called", prompts |-> 0, retry |-> "none"]

\* lines 33-77: schedule, fields and file path are chosen, or the export ends
ExSelect ==
    /\ script = "ScheduleExport" /\ pc = "ex_select"
    /\ \/ /\ pc' = "ex_lock"
          /\ UNCHANGED obs
       \/ /\ pc' = "done"
          /\ obs' = [obs EXCEPT !.alerts = @ \cup {"Aborting export"}]
    /\ UNCHANGED <<script, txn, ends, wrote, failed, docw, docs, snap, inp, loc>>

\* line 80, is_file_locked: the file is absent or can be opened, or it is in use
ExLockCheck ==
    /\ script = "ScheduleExport" /\ pc = "ex_lock"
    /\ \/ /\ pc' = "ex_open"
          /\ obs' = [obs EXCEPT !.is_file_locked = "False"]
          /\ UNCHANGED loc
       \/ /\ loc.checks < MaxRetry
          /\ pc' = "ex_dialog"
          /\ obs' = [obs EXCEPT !.is_file_locked = "True"]
          /\ loc' = [loc EXCEPT !.checks = @ + 1]
    /\ UNCHANGED <<script, txn, ends, wrote, failed, docw, docs, snap, inp>>

\* the dialog as it would be were a dismissed dialog not tested for: only
\* Abort ends the export
ExLockDialogAbortOnly ==
    /\ script = "ScheduleExport" /\ pc = "ex_dialog"
    /\ \E retry \in {"Retry", "Abort", "dismissed"} :
          IF retry # "Abort"
          THEN /\ pc' = "ex_lock"
               /\ obs' = [obs EXCEPT !.alerts = @ \cup {"The file is currently in use"},
                                     !.prompts = @ + 1, !.retry = retry]
          ELSE /\ pc' = "done"
               /\ obs' = [obs EXCEPT !.alerts = @ \cup {"The file is currently in use",
                                                        "Export Aborted"},
                                     !.prompts = @ + 1, !.retry = retry]
    /\ UNCHANGED <<script, txn, ends, wrote, failed, docw, docs, snap, inp, loc>>

\* lines 81-87: Retry checks again, Abort or a dismissed dialog ends the export
ExLockDialog ==
    /\ script = "ScheduleExport" /\ pc = "ex_dialog"
    /\ \E retry \in {"Retry", "Abort", "dismissed"} :
          IF retry = "Retry"
          THEN /\ pc' = "ex_lock"
               /\ obs' = [obs EXCEPT !.alerts = @ \cup {"The file is currently in use"},
                                     !.prompts = @ + 1, !.retry = retry]
          ELSE /\ pc' = "done"
               /\ obs' = [obs EXCEPT !.alerts = @ \cup {"The file is currently in use",
                                                        "Export Aborted"},
                                     !.prompts = @ + 1, !.retry = retry]
    /\ UNCHANGED <<script, txn, ends, wrote, failed, docw, docs, snap, inp, loc>>

\* lines 89-107: the file is opened, the headers are written as its first row
\* and the first body row is skipped when it holds the headers
ExOpen ==
    /\ script = "ScheduleExport" /\ pc = "ex_open"
    /\ LET start_row == 1
           first_row_values == StripAll(inp.body[start_row])
           header_values == StripAll(inp.headers)
       IN loc' = [loc EXCEPT !.opened = TRUE,
                             !.csv = <<inp.headers>>,
                             !.row = IF FirstRowIsHeader(first_row_values, header_values)
                                     THEN start_row + 1 ELSE start_row]
    /\ pc' = "ex_rows"
    /\ UNCHANGED <<script, txn, ends, wrote, failed, docw, docs, snap, inp, obs>>

\* lines 110-125: one body row: skipped when its first cell is empty, else written
ExRow ==
    /\ script = "ScheduleExport" /\ pc = "ex_rows" /\ loc.row <= Len(inp.body)
    /\ LET first_cell_text == Strip(inp.body[loc.row][1])
       IN \/ /\ first_cell_text = <<>>
             /\ loc' = [loc EXCEPT !.row = @ + 1]
             /\ UNCHANGED pc
          \/ /\ first_cell_text # <<>>
             /\ loc' = [loc EXCEPT !.row = @ + 1,
                                   !.csv = Append(@, StripAll(inp.body[loc.row]))]
             /\ UNCHANGED pc
          \/ \* reading or writing the row raises
             /\ pc' = "ex_rowerr"
             /\ UNCHANGED loc
    /\ UNCHANGED <<script, txn, ends, wrote, failed, docw, docs, snap, inp, obs>>

\* lines 127-137: the row's error handler
ExRowError ==
    /\ script = "ScheduleExport" /\ pc = "ex_rowerr"
    /\ \E user_choice \in {"Continue", "Abort", "dismissed"} :
          IF user_choice = "Continue"
          THEN /\ pc' = "ex_rows"
               /\ loc' = [loc EXCEPT !.row = @ + 1]
               /\ UNCHANGED obs
          ELSE /\ pc' = "done"
               /\ obs' = [obs EXCEPT !.alerts = @ \cup {"Export Aborted"}]
               /\ UNCHANGED loc
    /\ UNCHANGED <<script, txn, ends, wrote, failed, docw, docs, snap, inp>>

\* lines 139-142: the success toast after the last row
ExToast ==
    /\ script = "ScheduleExport" /\ pc = "ex_rows" /\ loc.row > Len(inp.body)
    /\ obs' = [obs EXCEPT !.alerts = @ \cup {"Export Complete"}]
    /\ pc' = "done"
    /\ UNCHANGED <<script, txn, ends, wrote, failed, docw, docs, snap, inp, loc>>

NextExport ==
    \/ ExSelect \/ ExLockCheck \/ ExLockDialog \/ ExOpen \/ ExRow \/ ExRowError \/ ExToast

SpecExport == InitExport /\ [][NextExport]_vars

\* C5: the CSV written holds the header row exactly once, as its first line,
\* and no body row whose cell texts equal the header names is written as a
\* data row.
C5_HeaderOnce ==
    (script = "ScheduleExport" /\ loc.opened) =>
        /\ loc.csv[1] = inp.headers
        /\ \A k \in 2..Len(loc.csv) : loc.csv[k] # StripAll(inp.headers)

\* C11: the chosen file is opened for writing only after is_file_locked has
\* returned False for it.  Every check that finds the file locked is followed
\* by one prompt, and the lock is checked again only after the answer Retry.
\* Abort, or a dismissed dialog, ends the export: the file is not opened,
\* nothing is written to it and the success toast is not shown.
C11_LockedFileNotOpened ==
    script = "ScheduleExport" =>
        /\ loc.opened => obs.is_file_locked = "False"
        /\ obs.prompts = (IF pc = "ex_dialog" THEN loc.checks - 1 ELSE loc.checks)
        /\ (pc = "ex_dialog") = (obs.is_file_locked = "True" /\ obs.prompts < loc.checks)
        /\ (pc \in {"ex_lock", "ex_open", "ex_rows", "ex_rowerr"} /\ loc.checks > 0)
               => obs.retry = "Retry"
        /\ obs.retry \in {"Abort", "dismissed"} =>
               /\ pc = "done"
               /\ ~loc.opened /\ loc.csv = <<>>
               /\ "Export Complete" \notin obs.alerts

\* the file was found locked twice, the user chose Retry twice, and the file
\* was opened after the third check found it free
C11_Witness ==
    /\ script = "ScheduleExport" /\ loc.opened
    /\ loc.checks = MaxRetry /\ obs.prompts = MaxRetry
    /\ obs.retry = "Retry" /\ obs.is_file_locked = "False"

\* the user dismissed the dialog while the file was locked
C11_WitnessAbort ==
    /\ script = "ScheduleExport" /\ pc = "done"
    /\ obs.retry = "dismissed" /\ obs.is_file_locked = "True" /\ ~loc.opened

----------------------------------------------------------------------------
(* Text: join, split and search, and float() *)

RECURSIVE Join(_, _)
\* d.join(parts)
Join(parts, d) ==
    IF parts = <<>> THEN <<>>
    ELSE IF Len(parts) = 1 THEN parts[1]
    ELSE parts[1] \o d \o Join(Tail(parts), d)

\* sub occurs in s at position i
OccursAt(s, sub, i) ==
    i + Len(sub) - 1 <= Len(s) /\ SubSeq(s, i, i + Len(sub) - 1) = sub

\* sub in s, for a non-empty sub
Contains(s, sub) == \E i \in 1..Len(s) : OccursAt(s, sub, i)

FirstAt(s, sub) == CHOOSE i \in 1..Len(s) : OccursAt(s, sub, i) /\ \A k \in 1..(i - 1) : ~OccursAt(s, sub, k)

LastAt(s, sub) == CHOOSE i \in 1..Len(s) : OccursAt(s, sub, i) /\ \A k \in (i + 1)..Len(s) : ~OccursAt(s, sub, k)

RECURSIVE Split(_, _)
\* s.split(d), for a non-empty d
Split(s, d) ==
    IF ~Contains(s, d) THEN <<s>>
    ELSE LET i == FirstAt(s, d)
         IN <<SubSeq(s, 1, i - 1)>> \o Split(SubSeq(s, i + Len(d), Len(s)), d)

\* s.rsplit(d, 1), for an s that contains d
RSplit1(s, d) ==
    LET i == LastAt(s, d) IN <<SubSeq(s, 1, i - 1), SubSeq(s, i + Len(d), Len(s))>>

\* s.upper()
Upper(s) == [i \in 1..Len(s) |-> IF s[i] = "x" THEN "X" ELSE s[i]]

\* float(s) raises ValueError unless s, without surrounding blanks, is digits
\* with at most one decimal point and at least one digit
IsFloat(s) ==
    LET t == Strip(s)
    IN /\ \A i \in 1..Len(t) : t[i] \in Digits \cup {"."}
       /\ Cardinality({i \in 1..Len(t) : t[i] = "."}) <= 1
       /\ \E i \in 1..Len(t) : t[i] \in Digits

\* float(s) in thousandths, for a text that float() accepts
FloatMilli(s) ==
    LET parts == Split(Strip(s), <<".">>)
        frac == IF Len(parts) > 1 THEN parts[2] ELSE <<>>
    IN 1000 * DigitsVal(parts[1]) + DigitsVal(SubSeq(frac \o <<"0", "0", "0">>, 1, 3))

\* str(float(s)) for a text that float() accepts: "1" gives "1.0"
FloatStr(s) ==
    LET parts == Split(Strip(s), <<".">>)
        whole == IF parts[1] = <<>> THEN <<"0">> ELSE parts[1]
        frac == IF Len(parts) > 1 /\ parts[2] # <<>> THEN parts[2] ELSE <<"0">>
    IN whole \o <<".">> \o frac

----------------------------------------------------------------------------
(* Clash Data: the update transaction *)

NPrim == 1          \* primary elements
MaxInter == 2       \* intersecting elements of one primary element
MaxParams == 2      \* selected parameters of the intersecting elements

NA == <<"N", "/", "A">>

\* what get_parameter_value can give: None (some is FALSE), or a text
SourceValues == {[some |-> FALSE, text |-> <<>>]} \cup [some : {TRUE}, text : {<<"1">>, <<"x">>}]
SourceTypes == {"String", "Integer", "Double"}
TargetTypes == {"String", "Integer", "Double", "ElementId"}

\* the names of the selected parameters
ParamNames == <<<<"P">>, <<"Q">>, <<"R">>>>
selected_intersecting_params(n) == SubSeq(ParamNames, 1, n)

\* lines 367-377: a line break for one parameter, else what the user typed
Delimiters(n) == IF n > 1 THEN {<<";">>, <<".">>} ELSE {<<"\n">>}

\* lines 63-77
are_parameter_types_compatible(source_type, target_type) ==
    \/ source_type = "ElementId" /\ target_type = "String"
    \/ source_type = target_type

\* lines 79-102: the pair (value, success), the value already as str() prints it
convert_parameter_value(source_type, target_type, value) ==
    CASE source_type = "ElementId" /\ target_type = "String" -> [value |-> value, success |-> TRUE]
      [] source_type = "Double" /\ target_type = "String" -> [value |-> value, success |-> TRUE]
      [] source_type = "String" /\ target_type = "Double" ->
            IF IsFloat(value) THEN [value |-> FloatStr(value), success |-> TRUE]
            ELSE [value |-> <<>>, success |-> FALSE]
      [] source_type = "Integer" /\ target_type = "String" -> [value |-> value, success |-> TRUE]
      [] source_type = "String" /\ target_type = "Integer" ->
            IF IsInt(value) THEN [value |-> Strip(value), success |-> TRUE]
            ELSE [value |-> <<>>, success |-> FALSE]
      [] OTHER -> [value |-> <<>>, success |-> FALSE]

\* line 432
SourceValueStr(source_value) == IF ~source_value.some THEN NA ELSE source_value.text

\* how often a value occurs in a list
CountOf(seq, v) == Cardinality({i \in 1..Len(seq) : seq[i] = v})

\* the orders in which a dictionary can hand out the items of a set of keys
Orders(S) == {o \in [1..Cardinality(S) -> S] : \A i, j \in 1..Cardinality(S) : o[i] = o[j] => i = j}

\* lines 483-489: one entry per distinct group, with its count when above one
FormatCounts(grouped_param_values, order) ==
    [i \in 1..Len(order) |->
        LET count == CountOf(grouped_param_values, order[i])
        IN IF count > 1
           THEN order[i] \o <<" ", "(">> \o <<CHOOSE c \in Digits : DigitVal(c) = count>> \o <<")">>
           ELSE order[i]]

\* lines 494-499: an entry without its count, and the count as it is put back
ValuePart(item) ==
    IF Contains(item, <<" ", "(">>) /\ item[Len(item)] = ")"
    THEN RSplit1(item, <<" ", "(">>)[1] ELSE item

CountPart(item) ==
    IF Contains(item, <<" ", "(">>) /\ item[Len(item)] = ")"
    THEN <<"(">> \o RSplit1(item, <<" ", "(">>)[2] ELSE <<>>

\* lines 504-505: the values of one entry, each behind its parameter's name
PairNames(names, values, delimiter) ==
    Join([i \in 1..Len(names) |-> names[i] \o <<":", " ">> \o values[i]], delimiter)

RECURSIVE WithNames(_, _, _)
\* lines 492-506
WithNames(formatted_values, names, delimiter) ==
    IF formatted_values = <<>> THEN <<>>
    ELSE LET item == Head(formatted_values)
             values == Split(ValuePart(item), delimiter)
             rest == WithNames(Tail(formatted_values), names, delimiter)
         IN IF Len(values) # Len(names) THEN rest
            ELSE <<PairNames(names, values, delimiter) \o CountPart(item)>> \o rest

\* lines 491-509
FinalValue(formatted_values, names, delimiter, include_param_names) ==
    IF include_param_names
    THEN Join(WithNames(formatted_values, names, delimiter), <<",", " ">>)
    ELSE Join(formatted_values, <<",", " ">>)

\* every aggregated entry counts as real data
RealDataFoundAlways(formatted_values) == TRUE

\* lines 516-520
RealDataFound(formatted_values) ==
    \E i \in 1..Len(formatted_values) : ~Contains(formatted_values[i], NA)

\* lines 534-546 and 567-576: the single text that is parsed, if there is one
SingleVal(final_value) == Strip(Split(final_value, <<",">>)[1])

\* lines 526-584: whether Set is reached for a writable target of a storage type
ClashSetReached(target_type, final_value) ==
    CASE target_type = "Double" ->
            Len(Split(final_value, <<",">>)) = 1 /\ IsFloat(SingleVal(final_value))
      [] target_type = "String" -> Upper(Strip(final_value)) # NA
      [] target_type = "Integer" ->
            Len(Split(final_value, <<",">>)) = 1 /\ IsInt(SingleVal(final_value))
      [] OTHER -> FALSE

\* the value handed to Set: mm_to_feet of the number (in 1/304800 ft), the text, or the integer
ClashSetValue(target_type, final_value) ==
    CASE target_type = "Double" -> [text |-> <<>>, num |-> FloatMilli(SingleVal(final_value))]
      [] target_type = "String" -> [text |-> final_value, num |-> 0]
      [] OTHER -> [text |-> <<>>, num |-> IntOf(SingleVal(final_value))]

\* lines 350-365: the values the user ticked, the same set for every parameter
SelectedSets == {{NA, <<"1">>, <<"x">>}, {<<"1">>}}

\* line 436: LookupParameter finds the target parameter on the primary element, or not
TargetKinds == {"missing", "found"}

Choices == {"Convert and Transfer", "Convert and Transfer All", "Cancel Transfer",
            "Cancel Transfer All", "Cancel Script", "dismissed"}

\* the target parameter of a primary element before the run
OldTarget(target_type) ==
    IF target_type = "String" THEN [text |-> <<"o">>, num |-> 0] ELSE [text |-> <<>>, num |-> 7]

NoUpdate == [done |-> FALSE, final |-> <<>>, called |-> FALSE]

InitClash ==
    /\ script = "ClashData"
    /\ pc = "cl_enter"
    /\ txn = "none" /\ ends = <<>> /\ wrote = FALSE /\ failed = "no"
    /\ \E n \in 1..MaxParams :
          inp \in [nparams : {n}, delimiter : Delimiters(n), include_param_names : BOOLEAN,
                   target_type : TargetTypes, selected : SelectedSets]
    /\ docw = [p \in 1..NPrim |-> OldTarget(inp.target_type)]
    /\ docs = docw /\ snap = docw
    /\ loc = [p |-> 0, e |-> 0, k |-> 0, target |-> "missing", param_values |-> <<>>,
              grouped_param_values |-> <<>>, apply_to_all |-> FALSE, user_decision |-> "none"]
    /\ obs = [alerts |-> {}, groups |-> <<>>, update |-> NoUpdate]

\* line 379: the context manager starts the transaction
ClEnter ==
    /\ script = "ClashData" /\ pc = "cl_enter"
    /\ TxStart
    /\ pc' = "cl_primary"
    /\ wrote' = FALSE
    /\ UNCHANGED <<script, inp, loc, obs>>

\* lines 380-386: the next primary element
ClPrimary ==
    /\ script = "ClashData" /\ pc = "cl_primary" /\ loc.p < NPrim
    /\ \E target \in TargetKinds :
          loc' = [loc EXCEPT !.p = @ + 1, !.e = 0, !.k = 0, !.target = target,
                             !.param_values = <<>>, !.grouped_param_values = <<>>,
                             !.apply_to_all = FALSE, !.user_decision = "none"]
    /\ obs' = [obs EXCEPT !.groups = <<>>, !.update = NoUpdate]
    /\ pc' = "cl_elem"
    /\ wrote' = FALSE
    /\ TxSame
    /\ UNCHANGED <<script, failed, docw, inp>>

\* lines 388-399: the next intersecting element, skipped when it cannot be fetched
ClElement ==
    /\ script = "ClashData" /\ pc = "cl_elem" /\ loc.e < MaxInter
    /\ \E found \in BOOLEAN :
          IF found
          THEN /\ loc' = [loc EXCEPT !.e = @ + 1, !.k = 1, !.param_values = <<>>]
               /\ pc' = "cl_param"
          ELSE /\ loc' = [loc EXCEPT !.e = @ + 1]
               /\ pc' = "cl_elem"
    /\ wrote' = FALSE
    /\ TxSame
    /\ UNCHANGED <<script, failed, docw, inp, obs>>

\* line 441-445: the type mismatch dialog is shown for this value
DialogShown(source_value, source_type) ==
    /\ source_value.some /\ SourceValueStr(source_value) # NA
    /\ ~are_parameter_types_compatible(source_type, inp.target_type)
    /\ ~(loc.apply_to_all /\ loc.user_decision # "none")

\* lines 400-477: one selected parameter of the intersecting element
ClParam ==
    /\ script = "ClashData" /\ pc = "cl_param" /\ loc.k <= inp.nparams
    /\ \E source_value \in SourceValues, source_type \in SourceTypes :
       \E answer \in IF DialogShown(source_value, source_type)
                     THEN Choices \ {"Cancel Script"} ELSE {"dismissed"} :
         LET source_value_str == SourceValueStr(source_value)
             mismatch == /\ source_value.some /\ source_value_str # NA
                         /\ ~are_parameter_types_compatible(source_type, inp.target_type)
             asked == DialogShown(source_value, source_type)
             user_choice == IF asked THEN answer ELSE loc.user_decision
             all == asked /\ answer \in {"Convert and Transfer All", "Cancel Transfer All"}
             converted == convert_parameter_value(source_type, inp.target_type, source_value.text)
             next == [loc EXCEPT !.k = @ + 1,
                                 !.apply_to_all = IF all THEN TRUE ELSE @,
                                 !.user_decision = IF all THEN answer ELSE @]
         IN \/ \* lines 433-439: the value was not ticked, or the target is missing
               /\ source_value_str \notin inp.selected \/ loc.target = "missing"
               /\ loc' = [loc EXCEPT !.k = @ + 1]
            \/ /\ source_value_str \in inp.selected /\ loc.target # "missing" /\ ~mismatch
               /\ loc' = [loc EXCEPT !.k = @ + 1, !.param_values = Append(@, source_value_str)]
            \/ /\ source_value_str \in inp.selected /\ loc.target # "missing" /\ mismatch
               /\ IF user_choice \in {"Convert and Transfer", "Convert and Transfer All"} /\ converted.success
                  THEN loc' = [next EXCEPT !.param_values = Append(@, converted.value)]
                  ELSE loc' = next
    /\ wrote' = FALSE
    /\ TxSame
    /\ UNCHANGED <<script, pc, failed, docw, inp, obs>>

\* lines 472-473: Cancel Script leaves the script; the context manager rolls back
ClCancelScript ==
    /\ script = "ClashData" /\ pc = "cl_param" /\ loc.k <= inp.nparams
    /\ loc.target # "missing"
    /\ \E source_value \in SourceValues, source_type \in SourceTypes :
          /\ SourceValueStr(source_value) \in inp.selected
          /\ DialogShown(source_value, source_type)
    /\ TxRollBack
    /\ obs' = [obs EXCEPT !.alerts = @ \cup {"Script execution cancelled by user."}]
    /\ pc' = "done"
    /\ wrote' = FALSE
    /\ UNCHANGED <<script, failed, inp, loc>>

\* lines 479-481: a group is kept when every selected parameter gave a value
\* (param_values is assigned anew for the next element, line 399)
ClGroup ==
    /\ script = "ClashData" /\ pc = "cl_param" /\ loc.k > inp.nparams
    /\ IF Len(loc.param_values) = inp.nparams
       THEN /\ loc' = [loc EXCEPT !.grouped_param_values = Append(@, Join(loc.param_values, inp.delimiter)),
                                  !.k = 0, !.param_values = <<>>]
            /\ obs' = [obs EXCEPT !.groups = Append(@, loc.param_values)]
       ELSE /\ loc' = [loc EXCEPT !.k = 0, !.param_values = <<>>]
            /\ UNCHANGED obs
    /\ pc' = "cl_elem"
    /\ wrote' = FALSE
    /\ TxSame
    /\ UNCHANGED <<script, failed, docw, inp>>

\* lines 483-586: the groups are counted, joined and written to the target
\* (the loop's variables are assigned anew for the next primary element, lines 383-386)
ClUpdate ==
    /\ script = "ClashData" /\ pc = "cl_elem"
    /\ \E order \in Orders({loc.grouped_param_values[i] : i \in 1..Len(loc.grouped_param_values)}) :
         LET formatted_values == FormatCounts(loc.grouped_param_values, order)
             final_value == FinalValue(formatted_values, selected_intersecting_params(inp.nparams),
                                       inp.delimiter, inp.include_param_names)
             \* lines 512-524: neither empty nor all N/A
             has_data == Strip(final_value) # <<>> /\ RealDataFound(formatted_values)
             update(called) == [done |-> TRUE, final |-> final_value, called |-> called]
         IN \/ \* skipped, or the target is missing (line 586)
               /\ ~has_data \/ loc.target = "missing"
               /\ obs' = [obs EXCEPT !.update = update(FALSE)]
               /\ wrote' = FALSE
               /\ UNCHANGED <<docw, failed>>
            \/ /\ has_data /\ loc.target = "found"
               /\ \E IsReadOnly \in BOOLEAN :
                     IF ~IsReadOnly /\ ClashSetReached(inp.target_type, final_value)
                     THEN /\ obs' = [obs EXCEPT !.update = update(TRUE)]
                          /\ \/ /\ docw' = [docw EXCEPT ![loc.p] = ClashSetValue(inp.target_type, final_value)]
                                /\ wrote' = TRUE
                                /\ UNCHANGED failed
                             \/ \* Set raises: the error is printed and the loop goes on
                                /\ failed' = "caught"
                                /\ wrote' = FALSE
                                /\ UNCHANGED docw
                     ELSE /\ obs' = [obs EXCEPT !.update = update(FALSE)]
                          /\ wrote' = FALSE
                          /\ UNCHANGED <<docw, failed>>
    /\ loc' = [loc EXCEPT !.e = 0, !.grouped_param_values = <<>>,
                          !.apply_to_all = FALSE, !.user_decision = "none"]
    /\ pc' = "cl_primary"
    /\ TxSame
    /\ UNCHANGED <<script, inp>>

\* line 379: the block ends and the context manager commits
ClExit ==
    /\ script = "ClashData" /\ pc = "cl_primary" /\ loc.p = NPrim
    /\ TxCommit
    /\ pc' = "done"
    /\ wrote' = FALSE
    /\ UNCHANGED <<script, failed, inp, loc, obs>>

NextClash ==
    \/ ClEnter \/ ClPrimary \/ ClElement \/ ClParam \/ ClCancelScript
    \/ ClGroup \/ ClUpdate \/ ClExit

SpecClash == InitClash /\ [][NextClash]_vars

\* every value of a group is the placeholder of a missing value
AllNA(group) == \A i \in 1..Len(group) : group[i] = NA

\* no complete group was contributed, or every contributed group is N/A
NoMeaningfulData(groups) == \A g \in 1..Len(groups) : AllNA(groups[g])

\* C6: Clash Data leaves the target parameter of a primary element alone when
\* no intersecting element contributed a complete group of selected values or
\* every contributed group is N/A: Set is not called for it and its value, in
\* the transaction and after the commit, is the one from before the run.
C6_NoDataNoSet ==
    (script = "ClashData" /\ obs.update.done /\ NoMeaningfulData(obs.groups))
        => /\ ~obs.update.called
           /\ docw[loc.p] = snap[loc.p]
           /\ docs[loc.p] = snap[loc.p]

\* two intersecting elements contributed only N/A for a text parameter that exists,
\* and the run was committed
C6_Witness ==
    /\ script = "ClashData" /\ pc = "done" /\ txn = "committed"
    /\ obs.update.done /\ Len(obs.groups) = 2 /\ NoMeaningfulData(obs.groups)
    /\ loc.target = "found" /\ inp.target_type = "String"
    /\ ~obs.update.called

\* C7: for a target parameter of storage type Double or Integer, Clash Data
\* calls Set only when the final value is a single value of a single selected
\* parameter that parses as a number; a final value that joins several groups
\* or several parameters' values, or carries a count or a name, is not Set.
C7_NumericTargetSingleValue ==
    (/\ script = "ClashData" /\ obs.update.done /\ obs.update.called
     /\ inp.target_type \in {"Double", "Integer"})
        => /\ inp.nparams = 1
           /\ ~inp.include_param_names
           /\ Len(obs.groups) = 1
           /\ IsFloat(obs.groups[1][1])
           /\ obs.update.final = obs.groups[1][1]

----------------------------------------------------------------------------
(* The transactions of the other scripts.  A document of MaxOps elements:
   0 is an element as it was before the run, 1 an element the script changed. *)

MaxOps == 2         \* operations on the document in one transaction

NoElementChanged == [i \in 1..MaxOps |-> 0]

----------------------------------------------------------------------------
(* CropView *)

InitCropView ==
    /\ script = "CropView"
    /\ pc = "cv_begin"
    /\ txn = "none" /\ ends = <<>> /\ wrote = FALSE /\ failed = "no"
    /\ inp \in [croppable : BOOLEAN]
    /\ docw \in [CropBoxActive : BOOLEAN, CropBoxVisible : BOOLEAN, CropBox : {0}]
    /\ docs = docw /\ snap = docw
    /\ loc = [crop_successful |-> FALSE, selected_element |-> "not picked", room |-> "unset"]
    /\ obs = [alerts |-> {}, error |-> "none"]

\* lines 31-37: the view type is checked; cropping is enabled when it is off
CvBegin ==
    /\ script = "CropView" /\ pc = "cv_begin"
    /\ IF ~inp.croppable
       THEN /\ obs' = [obs EXCEPT !.alerts = @ \cup {"This view cannot be cropped."}]
            /\ pc' = "done"
            /\ TxSame /\ UNCHANGED <<docw, failed>>
       ELSE IF docw.CropBoxActive
       THEN /\ pc' = "cv_select"
            /\ TxSame /\ UNCHANGED <<docw, failed, obs>>
       ELSE /\ pc' = "cv_enable"
            /\ TxStart /\ UNCHANGED obs
    /\ wrote' = FALSE
    /\ UNCHANGED <<script, inp, loc>>

\* lines 38-39: the two assignments, or one of them raises and the with block
\* disposes of the unfinished transaction
CvEnableWrite ==
    /\ script = "CropView" /\ pc = "cv_enable"
    /\ \/ /\ docw' = [docw EXCEPT !.CropBoxActive = TRUE, !.CropBoxVisible = TRUE]
          /\ wrote' = TRUE
          /\ pc' = "cv_enable_commit"
          /\ TxSame /\ UNCHANGED failed
       \/ /\ TxRollBack
          /\ failed' = "escaped"
          /\ wrote' = FALSE
          /\ pc' = "done"
    /\ UNCHANGED <<script, inp, loc, obs>>

\* line 40
CvEnableCommit ==
    /\ script = "CropView" /\ pc = "cv_enable_commit"
    /\ TxCommit
    /\ pc' = "cv_select"
    /\ wrote' = FALSE
    /\ UNCHANGED <<script, failed, inp, loc, obs>>

\* what can be picked: a room, or an element that is not a room
SelectedElements ==
    {"room", "element in a room", "element outside of the rooms", "element without location point"}

\* lines 95-103: the room of the selected element, "None" when there is none
RoomOf(selected_element) ==
    IF selected_element = "room" THEN "Room"
    ELSE IF selected_element = "element without location point" THEN "None"
    ELSE IF selected_element = "element in a room" THEN "Room"   \* GetRoomAtPoint
    ELSE "None"

\* lines 43-154: the element, the offset and the room's boundary
CvSelect ==
    /\ script = "CropView" /\ pc = "cv_select"
    /\ \/ \* lines 47-56: nothing is picked
          /\ pc' = "done"
          /\ obs' = [obs EXCEPT !.alerts = @ \cup {"Selection Cancelled"}]
          /\ UNCHANGED loc
       \/ \E selected_element \in SelectedElements :
             \/ \* lines 74-86: the offset is not given, or is not a number
                /\ \E message \in {"Offset input cancelled.", "Invalid number entered for offset."} :
                      obs' = [obs EXCEPT !.alerts = @ \cup {message}]
                /\ pc' = "done"
                /\ loc' = [loc EXCEPT !.selected_element = selected_element]
             \/ /\ loc' = [loc EXCEPT !.selected_element = selected_element,
                                      !.room = RoomOf(selected_element)]
                /\ IF RoomOf(selected_element) = "None"
                   THEN \* line 124: get_room_boundary_lines(None) raises at line 113
                        /\ pc' = "done"
                        /\ obs' = [obs EXCEPT !.error = "AttributeError"]
                   ELSE \E boundary_lines \in {"empty", "curves"} :
                           IF boundary_lines = "empty"
                           THEN \* lines 126-127
                                /\ pc' = "done"
                                /\ obs' = [obs EXCEPT !.alerts = @ \cup
                                              {"No boundary lines found for the room."}]
                           ELSE /\ pc' = "cv_crop"
                                /\ UNCHANGED obs
    /\ wrote' = FALSE
    /\ TxSame
    /\ UNCHANGED <<script, failed, docw, inp>>

\* the crop region is assigned without t.Start()
CvCropStartMissing ==
    /\ script = "CropView" /\ pc = "cv_crop"
    /\ pc' = "cv_crop_write"
    /\ wrote' = FALSE
    /\ TxSame
    /\ UNCHANGED <<script, failed, docw, inp, loc, obs>>

\* lines 157-159
CvCropStart ==
    /\ script = "CropView" /\ pc = "cv_crop"
    /\ TxStart
    /\ pc' = "cv_crop_write"
    /\ wrote' = FALSE
    /\ UNCHANGED <<script, inp, loc, obs>>

\* lines 160-162, and 166-168 when an assignment raises
CvCropWrite ==
    /\ script = "CropView" /\ pc = "cv_crop_write"
    /\ \/ /\ docw' = [docw EXCEPT !.CropBoxActive = TRUE, !.CropBoxVisible = TRUE, !.CropBox = 1]
          /\ wrote' = TRUE
          /\ pc' = "cv_crop_commit"
          /\ TxSame /\ UNCHANGED <<failed, obs>>
       \/ /\ TxRollBack
          /\ failed' = "escaped"
          /\ obs' = [obs EXCEPT !.alerts = @ \cup {"Error committing crop region transaction"}]
          /\ wrote' = FALSE
          /\ pc' = "done"
    /\ UNCHANGED <<script, inp, loc>>

\* lines 163-164, and 166-168 when Commit raises
CvCropCommit ==
    /\ script = "CropView" /\ pc = "cv_crop_commit"
    /\ \/ /\ TxCommit
          /\ loc' = [loc EXCEPT !.crop_successful = TRUE]
          /\ UNCHANGED <<failed, obs>>
       \/ /\ TxRollBack
          /\ failed' = "escaped"
          /\ obs' = [obs EXCEPT !.alerts = @ \cup {"Error committing crop region transaction"}]
          /\ UNCHANGED loc
    /\ pc' = "done"
    /\ wrote' = FALSE
    /\ UNCHANGED <<script, inp>>

NextCropView ==
    \/ CvBegin \/ CvEnableWrite \/ CvEnableCommit \/ CvSelect
    \/ CvCropStart \/ CvCropWrite \/ CvCropCommit

\* C12: when no room can be determined for the selected element, the script
\* shows the alert "No boundary lines found for the room." and exits without
\* an unhandled error and without starting the transaction "Adjust Crop
\* Region".
C12_NoRoomAlert ==
    (script = "CropView" /\ loc.room = "None") =>
        /\ pc = "done"
        /\ "No boundary lines found for the room." \in obs.alerts
        /\ obs.error = "none"
        /\ txn # "started" /\ docw.CropBox = 0

----------------------------------------------------------------------------
(* Uncut *)

InitUncut ==
    /\ script = "Uncut"
    /\ pc = "uc_select"
    /\ txn = "none" /\ ends = <<>> /\ wrote = FALSE /\ failed = "no"
    /\ inp \in [cuts : 0..MaxOps]
    /\ docw = NoElementChanged
    /\ docs = docw /\ snap = docw
    /\ loc = [ops |-> 0, successful_uncut_instances |-> 0, error_messages |-> 0]
    /\ obs = [alerts |-> {}]

\* main, lines 84-148: the selection and the confirmation, then t.Start()
UcSelect ==
    /\ script = "Uncut" /\ pc = "uc_select"
    /\ \/ /\ \E message \in {"No selection mode chosen.", "No instances found for the selected family types.",
                             "No family instances selected.", "Process canceled by user."} :
                obs' = [obs EXCEPT !.alerts = @ \cup {message}]
          /\ pc' = "done"
          /\ TxSame /\ UNCHANGED <<docw, failed>>
       \/ /\ TxStart
          /\ pc' = "uc_loop"
          /\ UNCHANGED obs
    /\ wrote' = FALSE
    /\ UNCHANGED <<script, inp, loc>>

\* uncut_geometry, lines 72-79: one cut is removed, or the failure is noted
UcUncut ==
    /\ script = "Uncut" /\ pc = "uc_loop" /\ loc.ops < inp.cuts
    /\ \/ /\ docw' = [docw EXCEPT ![loc.ops + 1] = 1]
          /\ loc' = [loc EXCEPT !.ops = @ + 1, !.successful_uncut_instances = @ + 1]
          /\ wrote' = TRUE
          /\ UNCHANGED failed
       \/ /\ failed' = "caught"
          /\ loc' = [loc EXCEPT !.ops = @ + 1, !.error_messages = @ + 1]
          /\ wrote' = FALSE
          /\ UNCHANGED docw
    /\ TxSame
    /\ UNCHANGED <<script, pc, inp, obs>>

\* main, lines 151-169: t.Commit() and the reports
UcCommit ==
    /\ script = "Uncut" /\ pc = "uc_loop" /\ loc.ops = inp.cuts
    /\ TxCommit
    /\ obs' = [obs EXCEPT !.alerts = @ \cup
                  {IF loc.successful_uncut_instances > 0 THEN "Uncut Operations Completed"
                   ELSE "No uncut operations were performed."}
                  \cup (IF loc.error_messages > 0 THEN {"Errors Encountered"} ELSE {})]
    /\ pc' = "done"
    /\ wrote' = FALSE
    /\ UNCHANGED <<script, failed, inp, loc>>

NextUncut == UcSelect \/ UcUncut \/ UcCommit

----------------------------------------------------------------------------
(* Element ID *)

InitElementID ==
    /\ script = "ElementID"
    /\ pc = "ei_select"
    /\ txn = "none" /\ ends = <<>> /\ wrote = FALSE /\ failed = "no"
    /\ inp \in [selected_elements : 1..MaxOps]
    /\ docw = NoElementChanged
    /\ docs = docw /\ snap = docw
    /\ loc = [ops |-> 0]
    /\ obs = [alerts |-> {}]

\* main, lines 65-109: the selections, then t.Start()
EiSelect ==
    /\ script = "ElementID" /\ pc = "ei_select"
    /\ \/ /\ \E message \in {"No categories selected.", "No instances selected.", "No parameter selected."} :
                obs' = [obs EXCEPT !.alerts = @ \cup {message}]
          /\ pc' = "done"
          /\ TxSame /\ UNCHANGED <<docw, failed>>
       \/ /\ TxStart
          /\ pc' = "ei_loop"
          /\ UNCHANGED obs
    /\ wrote' = FALSE
    /\ UNCHANGED <<script, inp, loc>>

\* main, lines 110-113: one element; a Set that raises leaves the with block,
\* which disposes of the unfinished transaction
EiSet ==
    /\ script = "ElementID" /\ pc = "ei_loop" /\ loc.ops < inp.selected_elements
    /\ \E param \in {"integer", "missing", "raises"} :
          CASE param = "integer" ->
                  /\ docw' = [docw EXCEPT ![loc.ops + 1] = 1]
                  /\ wrote' = TRUE
                  /\ TxSame /\ UNCHANGED <<pc, failed>>
            [] param = "missing" ->
                  /\ wrote' = FALSE
                  /\ TxSame /\ UNCHANGED <<pc, docw, failed>>
            [] OTHER ->
                  /\ TxRollBack
                  /\ failed' = "escaped"
                  /\ wrote' = FALSE
                  /\ pc' = "done"
    /\ loc' = [loc EXCEPT !.ops = @ + 1]
    /\ UNCHANGED <<script, inp, obs>>

\* main, lines 114-116
EiCommit ==
    /\ script = "ElementID" /\ pc = "ei_loop" /\ loc.ops = inp.selected_elements
    /\ TxCommit
    /\ obs' = [obs EXCEPT !.alerts = @ \cup {"Element IDs have been input into the selected parameter."}]
    /\ pc' = "done"
    /\ wrote' = FALSE
    /\ UNCHANGED <<script, failed, inp, loc>>

NextElementID == EiSelect \/ EiSet \/ EiCommit

----------------------------------------------------------------------------
(* Parameter Value Copier *)

InitValueCopier ==
    /\ script = "ParameterValueCopier"
    /\ pc = "pv_select"
    /\ txn = "none" /\ ends = <<>> /\ wrote = FALSE /\ failed = "no"
    /\ inp \in [instances : 1..MaxOps]
    /\ docw = NoElementChanged
    /\ docs = docw /\ snap = docw
    /\ loc = [ops |-> 0, updated_instances |-> 0]
    /\ obs = [alerts |-> {}]

\* main, lines 157-187, and copy_parameter_values, lines 68-69
PvSelect ==
    /\ script = "ParameterValueCopier" /\ pc = "pv_select"
    /\ \/ /\ \E message \in {"No instances selected.", "No source parameter selected.",
                             "No target parameter selected."} :
                obs' = [obs EXCEPT !.alerts = @ \cup {message}]
          /\ pc' = "done"
          /\ TxSame /\ UNCHANGED <<docw, failed>>
       \/ /\ TxStart
          /\ pc' = "pv_loop"
          /\ UNCHANGED obs
    /\ wrote' = FALSE
    /\ UNCHANGED <<script, inp, loc>>

\* copy_parameter_values, lines 70-115: one instance; a Set that raises leaves
\* the with block, which disposes of the unfinished transaction
PvCopy ==
    /\ script = "ParameterValueCopier" /\ pc = "pv_loop" /\ loc.ops < inp.instances
    /\ \E outcome \in {"set", "types differ", "not found", "raises"} :
          CASE outcome = "set" ->
                  /\ docw' = [docw EXCEPT ![loc.ops + 1] = 1]
                  /\ loc' = [loc EXCEPT !.ops = @ + 1, !.updated_instances = @ + 1]
                  /\ wrote' = TRUE
                  /\ TxSame /\ UNCHANGED <<pc, failed, obs>>
            [] outcome = "types differ" ->
                  /\ obs' = [obs EXCEPT !.alerts = @ \cup {"Storage types do not match."}]
                  /\ loc' = [loc EXCEPT !.ops = @ + 1]
                  /\ wrote' = FALSE
                  /\ TxSame /\ UNCHANGED <<pc, docw, failed>>
            [] outcome = "not found" ->
                  /\ obs' = [obs EXCEPT !.alerts = @ \cup {"Source or target parameter not found"}]
                  /\ loc' = [loc EXCEPT !.ops = @ + 1]
                  /\ wrote' = FALSE
                  /\ TxSame /\ UNCHANGED <<pc, docw, failed>>
            [] OTHER ->
                  /\ TxRollBack
                  /\ failed' = "escaped"
                  /\ loc' = [loc EXCEPT !.ops = @ + 1]
                  /\ wrote' = FALSE
                  /\ pc' = "done"
                  /\ UNCHANGED obs
    /\ UNCHANGED <<script, inp>>

\* copy_parameter_values, lines 116-117, and main, lines 190-194
PvCommit ==
    /\ script = "ParameterValueCopier" /\ pc = "pv_loop" /\ loc.ops = inp.instances
    /\ TxCommit
    /\ obs' = [obs EXCEPT !.alerts = @ \cup
                  {IF loc.updated_instances > 0 THEN "Parameter values copied"
                   ELSE "No instances were updated."}]
    /\ pc' = "done"
    /\ wrote' = FALSE
    /\ UNCHANGED <<script, failed, inp, loc>>

NextValueCopier == PvSelect \/ PvCopy \/ PvCommit

----------------------------------------------------------------------------
(* Copy Linked Items *)

InitCopyLinked ==
    /\ script = "CopyLinkedItems"
    /\ pc = "cp_select"
    /\ txn = "none" /\ ends = <<>> /\ wrote = FALSE /\ failed = "no"
    /\ inp \in [links : 0..MaxOps]
    /\ docw = NoElementChanged
    /\ docs = docw /\ snap = docw
    /\ loc = [ops |-> 0, total_copied |-> 0]
    /\ obs = [alerts |-> {}]

\* main, up to line 259: the selections and the grouping, then the context
\* manager starts the transaction
CpSelect ==
    /\ script = "CopyLinkedItems" /\ pc = "cp_select"
    /\ \/ /\ obs' = [obs EXCEPT !.alerts = @ \cup {"No instances selected."}]
          /\ pc' = "done"
          /\ TxSame /\ UNCHANGED <<docw, failed>>
       \/ /\ TxStart
          /\ pc' = "cp_loop"
          /\ UNCHANGED obs
    /\ wrote' = FALSE
    /\ UNCHANGED <<script, inp, loc>>

\* main, lines 260-286: the elements of one link
CpCopy ==
    /\ script = "CopyLinkedItems" /\ pc = "cp_loop" /\ loc.ops < inp.links
    /\ \E outcome \in {"copied", "nothing copied", "no document", "CopyElements raises"} :
          CASE outcome = "copied" ->
                  /\ docw' = [docw EXCEPT ![loc.ops + 1] = 1]
                  /\ loc' = [loc EXCEPT !.ops = @ + 1, !.total_copied = @ + 1]
                  /\ wrote' = TRUE
                  /\ UNCHANGED <<failed, obs>>
            [] outcome = "nothing copied" ->
                  /\ loc' = [loc EXCEPT !.ops = @ + 1]
                  /\ wrote' = FALSE
                  /\ UNCHANGED <<docw, failed, obs>>
            [] outcome = "no document" ->
                  /\ obs' = [obs EXCEPT !.alerts = @ \cup {"Failed to get the linked document"}]
                  /\ loc' = [loc EXCEPT !.ops = @ + 1]
                  /\ wrote' = FALSE
                  /\ UNCHANGED <<docw, failed>>
            [] OTHER ->
                  /\ obs' = [obs EXCEPT !.alerts = @ \cup {"Error copying elements from link"}]
                  /\ loc' = [loc EXCEPT !.ops = @ + 1]
                  /\ failed' = "caught"
                  /\ wrote' = FALSE
                  /\ UNCHANGED docw
    /\ TxSame
    /\ UNCHANGED <<script, pc, inp>>

\* main, lines 267-271 and 294-297: an error outside the try of CopyElements
\* leaves the block; the context manager rolls back
CpError ==
    /\ script = "CopyLinkedItems" /\ pc = "cp_loop" /\ loc.ops < inp.links
    /\ TxRollBack
    /\ failed' = "escaped"
    /\ obs' = [obs EXCEPT !.alerts = @ \cup {"An error occurred during the copy-paste process"}]
    /\ pc' = "done"
    /\ wrote' = FALSE
    /\ UNCHANGED <<script, inp, loc>>

\* main, lines 259 and 288-292: the block ends, the context manager commits
CpExit ==
    /\ script = "CopyLinkedItems" /\ pc = "cp_loop" /\ loc.ops = inp.links
    /\ TxCommit
    /\ obs' = [obs EXCEPT !.alerts = @ \cup
                  {IF loc.total_copied = 0 THEN "No elements were copied."
                   ELSE "Successfully copied and pasted"}]
    /\ pc' = "done"
    /\ wrote' = FALSE
    /\ UNCHANGED <<script, failed, inp, loc>>

NextCopyLinked == CpSelect \/ CpCopy \/ CpError \/ CpExit

----------------------------------------------------------------------------
(* Dimension All Prototype *)

MaxViews == 2       \* selected views

InitDimensionPrototype ==
    /\ script = "DimensionAllPrototype"
    /\ pc = "dp_views"
    /\ txn = "none" /\ ends = <<>> /\ wrote = FALSE /\ failed = "no"
    /\ inp \in [selected_views : 0..MaxViews]
    /\ docw = NoElementChanged
    /\ docs = docw /\ snap = docw
    /\ loc = [views |-> 0, ops |-> 0]
    /\ obs = [alerts |-> {}]

\* main, lines 142-183: the next view; its transaction starts when the walls
\* and the options are there
DpView ==
    /\ script = "DimensionAllPrototype" /\ pc = "dp_views" /\ loc.views < inp.selected_views
    /\ \/ /\ \E reason \in {"no walls", "No location line option selected. Aborting.",
                            "No dimension style selected. Aborting."} :
                obs' = [obs EXCEPT !.alerts = @ \cup ({reason} \ {"no walls"})]
          /\ loc' = [loc EXCEPT !.views = @ + 1]
          /\ TxSame /\ UNCHANGED <<pc, docw, failed>>
       \/ /\ TxStart
          /\ loc' = [loc EXCEPT !.views = @ + 1, !.ops = 0]
          /\ pc' = "dp_walls"
          /\ UNCHANGED obs
    /\ wrote' = FALSE
    /\ UNCHANGED <<script, inp>>

\* dimension_walls, lines 128-133: one dimension is created, or the error is printed
DpDimension ==
    /\ script = "DimensionAllPrototype" /\ pc = "dp_walls" /\ loc.ops < MaxOps
    /\ \/ /\ docw' = [docw EXCEPT ![loc.ops + 1] = 1]
          /\ wrote' = TRUE
          /\ UNCHANGED failed
       \/ /\ failed' = "caught"
          /\ wrote' = FALSE
          /\ UNCHANGED docw
    /\ loc' = [loc EXCEPT !.ops = @ + 1]
    /\ TxSame
    /\ UNCHANGED <<script, pc, inp, obs>>

\* the handler of main commits what was done before the error
DpErrorCommits ==
    /\ script = "DimensionAllPrototype" /\ pc = "dp_walls"
    /\ TxCommit
    /\ failed' = "escaped"
    /\ pc' = "dp_views"
    /\ wrote' = FALSE
    /\ UNCHANGED <<script, inp, loc, obs>>

\* main, lines 187-189: an error that dimension_walls does not catch
\* (lines 105-126), or one of Commit
DpError ==
    /\ script = "DimensionAllPrototype" /\ pc = "dp_walls"
    /\ TxRollBack
    /\ failed' = "escaped"
    /\ pc' = "dp_views"
    /\ wrote' = FALSE
    /\ UNCHANGED <<script, inp, loc, obs>>

\* main, line 186
DpCommit ==
    /\ script = "DimensionAllPrototype" /\ pc = "dp_walls"
    /\ TxCommit
    /\ pc' = "dp_views"
    /\ wrote' = FALSE
    /\ UNCHANGED <<script, failed, inp, loc, obs>>

\* main, lines 138-142: no view is left
DpEnd ==
    /\ script = "DimensionAllPrototype" /\ pc = "dp_views" /\ loc.views = inp.selected_views
    /\ pc' = "done"
    /\ wrote' = FALSE
    /\ TxSame
    /\ UNCHANGED <<script, failed, docw, inp, loc, obs>>

NextDimensionPrototype == DpView \/ DpDimension \/ DpError \/ DpCommit \/ DpEnd

----------------------------------------------------------------------------
(* Dimension All *)

InitDimensionAll ==
    /\ script = "DimensionAll"
    /\ pc = "da_select"
    /\ txn = "none" /\ ends = <<>> /\ wrote = FALSE /\ failed = "no"
    /\ inp \in [all_dimension_references : 0..MaxOps]
    /\ docw = NoElementChanged
    /\ docs = docw /\ snap = docw
    /\ loc = [ops |-> 0, proceed |-> "not asked"]
    /\ obs = [alerts |-> {}]

\* main, lines 427-445: the selections, then t.Start()
DaSelect ==
    /\ script = "DimensionAll" /\ pc = "da_select"
    /\ \/ /\ pc' = "done"
          /\ TxSame /\ UNCHANGED <<docw, failed>>
       \/ /\ TxStart
          /\ pc' = "da_collect"
    /\ wrote' = FALSE
    /\ UNCHANGED <<script, inp, loc, obs>>

\* the confirmation as it would be were its answer not tested: the
\* dimensions are created after No as well
DaCollectAnswerIgnored ==
    /\ script = "DimensionAll" /\ pc = "da_collect"
    /\ IF inp.all_dimension_references = 0
       THEN /\ TxRollBack
            /\ pc' = "done"
            /\ UNCHANGED loc
       ELSE \E proceed \in BOOLEAN :
               /\ loc' = [loc EXCEPT !.proceed = IF proceed THEN "Yes" ELSE "No"]
               /\ pc' = "da_create"
               /\ TxSame /\ UNCHANGED docw
    /\ wrote' = FALSE
    /\ UNCHANGED <<script, failed, inp, obs>>

\* main, lines 447-529: the references are collected and the user is asked
DaCollect ==
    /\ script = "DimensionAll" /\ pc = "da_collect"
    /\ IF inp.all_dimension_references = 0
       THEN /\ TxRollBack
            /\ pc' = "done"
            /\ UNCHANGED loc
       ELSE \E proceed \in BOOLEAN :
               /\ loc' = [loc EXCEPT !.proceed = IF proceed THEN "Yes" ELSE "No"]
               /\ IF proceed
                  THEN /\ pc' = "da_create"
                       /\ TxSame /\ UNCHANGED docw
                  ELSE /\ TxRollBack
                       /\ pc' = "done"
    /\ wrote' = FALSE
    /\ UNCHANGED <<script, failed, inp, obs>>

\* create_dimensions, lines 391-424: one pair of references
DaCreate ==
    /\ script = "DimensionAll" /\ pc = "da_create" /\ loc.ops < inp.all_dimension_references
    /\ \E outcome \in {"created", "no points", "raises"} :
          CASE outcome = "created" ->
                  /\ docw' = [docw EXCEPT ![loc.ops + 1] = 1]
                  /\ wrote' = TRUE
                  /\ UNCHANGED failed
            [] outcome = "no points" ->
                  /\ wrote' = FALSE
                  /\ UNCHANGED <<docw, failed>>
            [] OTHER ->
                  /\ failed' = "caught"
                  /\ wrote' = FALSE
                  /\ UNCHANGED docw
    /\ loc' = [loc EXCEPT !.ops = @ + 1]
    /\ TxSame
    /\ UNCHANGED <<script, pc, inp, obs>>

\* main, lines 532-533
DaCommit ==
    /\ script = "DimensionAll" /\ pc = "da_create" /\ loc.ops = inp.all_dimension_references
    /\ TxCommit
    /\ obs' = [obs EXCEPT !.alerts = @ \cup {"Dimensions have been created successfully."}]
    /\ pc' = "done"
    /\ wrote' = FALSE
    /\ UNCHANGED <<script, failed, inp, loc>>

\* main, lines 535-539: an error while collecting, or one that
\* create_dimensions does not catch, or one of Commit
DaError ==
    /\ script = "DimensionAll" /\ pc \in {"da_collect", "da_create"}
    /\ TxRollBack
    /\ failed' = "escaped"
    /\ obs' = [obs EXCEPT !.alerts = @ \cup {"An error occurred"}]
    /\ pc' = "done"
    /\ wrote' = FALSE
    /\ UNCHANGED <<script, inp, loc>>

NextDimensionAll == DaSelect \/ DaCollect \/ DaCreate \/ DaCommit \/ DaError

\* C16: in Dimension All the transaction 'Dimension Selected Elements' is
\* committed only when at least one pair of references was collected and the
\* user answered Yes to 'Proceed?'; on every other path (no references, the
\* user declines, an exception) it is rolled back; on every path exactly one
\* of Commit and RollBack has been called when main returns or re-raises.
C16_CommitOnlyOnYes ==
    script = "DimensionAll" =>
        /\ ends \in {<<>>, <<"Commit">>, <<"RollBack">>}
        /\ txn = "committed" =>
               /\ inp.all_dimension_references > 0
               /\ loc.proceed = "Yes"
               /\ failed # "escaped"
        /\ txn = "started" => (ends = <<>> /\ pc # "done")
        /\ (pc = "done" /\ txn # "none") =>
               /\ Len(ends) = 1
               /\ txn = (IF ends = <<"Commit">> THEN "committed" ELSE "rolledback")
               /\ (inp.all_dimension_references = 0 \/ loc.proceed = "No" \/ failed = "escaped")
                      => (txn = "rolledback" /\ docw = snap /\ docs = snap)
               /\ (loc.proceed = "Yes" /\ failed # "escaped") => txn = "committed"
        /\ pc # "done" => ENABLED NextDimensionAll

\* the user answered Yes, a dimension was created, and an error that
\* create_dimensions does not catch rolled the transaction back
C16_Witness ==
    /\ script = "DimensionAll" /\ pc = "done"
    /\ loc.proceed = "Yes" /\ loc.ops > 0 /\ failed = "escaped"
    /\ ends = <<"RollBack">> /\ docw = snap

\* the user answered Yes and the dimensions were committed
C16_WitnessCommit ==
    /\ script = "DimensionAll" /\ pc = "done"
    /\ loc.proceed = "Yes" /\ ends = <<"Commit">> /\ docs # snap

----------------------------------------------------------------------------
(* Import CSV Data *)

MaxValues == 2      \* parameter values read for one primary element

NoMismatch == [prompted |-> FALSE, choice |-> "none", prev |-> "none"]

InitImportCSV ==
    /\ script = "ImportCSVData"
    /\ pc = "ic_enter"
    /\ txn = "none" /\ ends = <<>> /\ wrote = FALSE /\ failed = "no"
    /\ inp \in [primary_elements : 0..MaxOps]
    /\ docw = NoElementChanged
    /\ docs = docw /\ snap = docw
    /\ loc = [ops |-> 0, values |-> 0, param_values |-> 0, updated |-> 0,
              apply_to_all |-> FALSE, user_decision |-> "none"]
    /\ obs = [alerts |-> {}, mismatch |-> NoMismatch]

\* line 490: the context manager starts the transaction
IcEnter ==
    /\ script = "ImportCSVData" /\ pc = "ic_enter"
    /\ TxStart
    /\ pc' = "ic_primary"
    /\ wrote' = FALSE
    /\ UNCHANGED <<script, inp, loc, obs>>

\* lines 491-499: the next primary element; the decision of the dialog is
\* forgotten
IcPrimary ==
    /\ script = "ImportCSVData" /\ pc = "ic_primary" /\ loc.ops < inp.primary_elements
    /\ loc' = [loc EXCEPT !.values = 0, !.param_values = 0,
                          !.apply_to_all = FALSE, !.user_decision = "none"]
    /\ pc' = "ic_value"
    /\ wrote' = FALSE
    /\ TxSame
    /\ UNCHANGED <<script, failed, docw, inp, obs>>

\* lines 576-579: the dialog is shown for a value whose types do not match
IcDialogShown == ~(loc.apply_to_all /\ loc.user_decision # "none")

\* lines 501-617: one parameter value of an intersecting element of the
\* primary element
IcValue ==
    /\ script = "ImportCSVData" /\ pc = "ic_value" /\ loc.values < MaxValues
    /\ \E kind \in {"skipped", "compatible", "mismatch"} :
          CASE kind = "skipped" ->
                  \* lines 505-510, 565-572
                  /\ loc' = [loc EXCEPT !.values = @ + 1]
                  /\ UNCHANGED obs
            [] kind = "compatible" ->
                  /\ loc' = [loc EXCEPT !.values = @ + 1, !.param_values = @ + 1]
                  /\ UNCHANGED obs
            [] OTHER ->
                  \E answer \in IF IcDialogShown THEN Choices \ {"Cancel Script"} ELSE {"dismissed"},
                     success \in BOOLEAN :
                     LET user_choice == IF IcDialogShown THEN answer ELSE loc.user_decision
                         all == IcDialogShown
                                /\ answer \in {"Convert and Transfer All", "Cancel Transfer All"}
                         transfer == /\ user_choice \in {"Convert and Transfer",
                                                         "Convert and Transfer All"}
                                     /\ success
                     IN /\ loc' = [loc EXCEPT !.values = @ + 1,
                                              !.param_values = IF transfer THEN @ + 1 ELSE @,
                                              !.apply_to_all = IF all THEN TRUE ELSE @,
                                              !.user_decision = IF all THEN answer ELSE @]
                        /\ obs' = [obs EXCEPT !.mismatch = [prompted |-> IcDialogShown,
                                                            choice |-> user_choice,
                                                            prev |-> obs.mismatch.choice]]
    /\ wrote' = FALSE
    /\ TxSame
    /\ UNCHANGED <<script, pc, failed, docw, inp>>

\* Cancel Script as it would be were the exit of the script a clean end of
\* the block: the context manager commits
IcCancelScriptCommits ==
    /\ script = "ImportCSVData" /\ pc = "ic_value" /\ loc.values < MaxValues
    /\ IcDialogShown
    /\ TxCommit
    /\ obs' = [obs EXCEPT !.alerts = @ \cup {"Script execution cancelled by user."},
                          !.mismatch = [prompted |-> TRUE, choice |-> "Cancel Script",
                                        prev |-> obs.mismatch.choice]]
    /\ pc' = "done"
    /\ wrote' = FALSE
    /\ UNCHANGED <<script, failed, inp, loc>>

\* lines 609-611: Cancel Script leaves the script; the context manager rolls back
IcCancelScript ==
    /\ script = "ImportCSVData" /\ pc = "ic_value" /\ loc.values < MaxValues
    /\ IcDialogShown
    /\ TxRollBack
    /\ obs' = [obs EXCEPT !.alerts = @ \cup {"Script execution cancelled by user."},
                          !.mismatch = [prompted |-> TRUE, choice |-> "Cancel Script",
                                        prev |-> obs.mismatch.choice]]
    /\ pc' = "done"
    /\ wrote' = FALSE
    /\ UNCHANGED <<script, failed, inp, loc>>

\* line 575: a parameter without a source has no StorageType; the error
\* leaves the block and the context manager rolls back
IcError ==
    /\ script = "ImportCSVData" /\ pc = "ic_value" /\ loc.values < MaxValues
    /\ TxRollBack
    /\ failed' = "escaped"
    /\ pc' = "done"
    /\ wrote' = FALSE
    /\ UNCHANGED <<script, inp, loc, obs>>

\* lines 625-669: the values of the primary element are joined and written
\* to its parameter
IcUpdate ==
    /\ script = "ImportCSVData" /\ pc = "ic_value"
    /\ \E outcome \in {"set", "Set raises", "read-only"} :
          CASE outcome = "set" ->
                  /\ docw' = [docw EXCEPT ![loc.ops + 1] = 1]
                  /\ loc' = [loc EXCEPT !.ops = @ + 1, !.updated = @ + 1]
                  /\ wrote' = TRUE
                  /\ UNCHANGED failed
            [] outcome = "Set raises" ->
                  /\ loc' = [loc EXCEPT !.ops = @ + 1]
                  /\ failed' = "caught"
                  /\ wrote' = FALSE
                  /\ UNCHANGED docw
            [] OTHER ->
                  /\ loc' = [loc EXCEPT !.ops = @ + 1]
                  /\ wrote' = FALSE
                  /\ UNCHANGED <<docw, failed>>
    /\ pc' = "ic_primary"
    /\ TxSame
    /\ UNCHANGED <<script, inp, obs>>

\* line 490: the block ends and the context manager commits
IcExit ==
    /\ script = "ImportCSVData" /\ pc = "ic_primary" /\ loc.ops = inp.primary_elements
    /\ TxCommit
    /\ pc' = "done"
    /\ wrote' = FALSE
    /\ UNCHANGED <<script, failed, inp, loc, obs>>

NextImportCSV ==
    \/ IcEnter \/ IcPrimary \/ IcValue \/ IcCancelScript \/ IcError \/ IcUpdate \/ IcExit

C17_WitnessClash ==
    /\ script = "ClashData" /\ pc = "done"
    /\ "Script execution cancelled by user." \in obs.alerts
    /\ txn = "rolledback"

\* C18: once the user has chosen 'Convert and Transfer All' or 'Cancel
\* Transfer All', every later type mismatch of the run takes that decision
\* without the dialog being shown, for the remaining primary elements as well;
\* after 'Convert and Transfer' or 'Cancel Transfer' the next mismatch shows
\* the dialog again.
C18_AllDecisionKept ==
    script = "ImportCSVData" =>
        /\ obs.mismatch.prev \in {"Convert and Transfer All", "Cancel Transfer All"} =>
               /\ ~obs.mismatch.prompted
               /\ obs.mismatch.choice = obs.mismatch.prev
        /\ obs.mismatch.prev \in {"Convert and Transfer", "Cancel Transfer"} =>
               obs.mismatch.prompted

----------------------------------------------------------------------------
(* Every script that writes to the document *)

Init ==
    \/ InitLevel \/ InitImport \/ InitClash \/ InitCropView \/ InitUncut
    \/ InitElementID \/ InitValueCopier \/ InitCopyLinked
    \/ InitDimensionPrototype \/ InitDimensionAll \/ InitImportCSV

Next ==
    \/ NextLevel \/ NextImport \/ NextClash \/ NextCropView \/ NextUncut
    \/ NextElementID \/ NextValueCopier \/ NextCopyLinked
    \/ NextDimensionPrototype \/ NextDimensionAll \/ NextImportCSV

Spec == Init /\ [][Next]_vars

\* C1: in every script a write to the document (a parameter Set, a crop box
\* assignment, CopyElements, NewDimension, RemoveInstanceVoidCut, SetWorkPlane)
\* is made only in a transaction that has been started and not yet committed
\* or rolled back; outside of a write the document changes only when the host
\* rolls a transaction back.
C1_WritesInsideTransaction ==
    [][/\ wrote' => (txn = "started" /\ txn' = "started")
       /\ docw' # docw => (wrote' \/ (txn = "started" /\ txn' = "rolledback" /\ docw' = docs))]_vars

\* the crop region is being assigned in the second transaction of CropView
C1_Witness ==
    /\ script = "CropView" /\ pc = "cv_crop_commit"
    /\ wrote /\ txn = "started" /\ docw.CropBox = 1 /\ docs.CropBox = 0

====
